---- MODULE Spec2Model ----
(***************************************************************************)
(* Model of the CasparCG ffmpeg consumer (Media Writer): the frame queue,  *)
(* the media thread (stage 2) with its filter/encode Streams, the packet   *)
(* queue and the packet-writer thread (stage 3), as implemented in         *)
(* src/src/modules/ffmpeg/consumer/ffmpeg_consumer.cpp; and of the video   *)
(* decoder with its pixel format resolver, as implemented in               *)
(* src/modules/ffmpeg/producer/video/video_decoder.cpp.                    *)
(***************************************************************************)
EXTENDS Integers, Sequences, FiniteSets, TLC

(* ------------------------------ bounds -------------------------------- *)

\* number of send calls the callers make
MaxSends == 3
\* frames an encoder may hold back before it must hand out a packet
MaxBuffered == 1
\* calls of decode on the video decoder
MaxDecodes == 3
\* picture sizes of the video decoder's codec context
MaxWidth == 5
MaxHeight == 2
\* bytes by which the stride of a decoded plane may exceed its row
MaxPad == 1

(* ------------------------- program constants -------------------------- *)

\* frame_buffer_.set_capacity(realtime_ ? 1 : 128)
RealtimeCapacity == 1
FileCapacity == 128
\* packet_buffer.set_capacity(128)
PacketCapacity == 128
\* video_decoder::implementation::receive: for(int n = 0; n < 32 && ...
MaxReceive == 32
\* int channel_index_ = -1 is overwritten by the crc16 of the path in the
\* constructor; the model uses one fixed path whose checksum is PathCrc.
PathCrc == 0

(* ------------------------------ inputs -------------------------------- *)

\* container formats: which default codecs the output format has
\* (oc->oformat->video_codec / audio_codec != AV_CODEC_ID_NONE) and whether
\* it carries AVFMT_NOFILE and AVFMT_GLOBALHEADER
OutputFormats ==
    { [video |-> TRUE,  audio |-> TRUE,  nofile |-> FALSE, globalheader |-> TRUE ],
      [video |-> TRUE,  audio |-> FALSE, nofile |-> TRUE,  globalheader |-> TRUE ],
      [video |-> FALSE, audio |-> TRUE,  nofile |-> FALSE, globalheader |-> FALSE] }

\* create_consumer: the leading token of the parameters, and the realtime
\* flag it gives the consumer (boost::iequals(params.at(0), L"STREAM"))
LeadingTokens == {"STREAM", "FILE"}
IsRealtime(token) == token = "STREAM"

\* arguments of initialize
FormatDescs == {"PAL", "NTSC"}
ChannelIndexes == {1, 2}
NoFormatDesc == "default"

\* a frame as the caller hands it to send: its audio sample count, a
\* timestamp carried in its own metadata, and whether it is the empty frame
\* (core::const_frame{}, which converts to false: the EOF sentinel). The n-th
\* send call carries either the n-th frame, of n samples, or the empty frame.
Frame(n) == [id |-> n, nb |-> n, meta |-> 10 - n, eof |-> FALSE]
EofFrame(n) == [id |-> n, nb |-> 0, meta |-> 0, eof |-> TRUE]
\* const_frame::operator bool
IsFrame(f) == ~f.eof
FrameInputs(n) == { Frame(n), EofFrame(n) }
\* the sentinel the destructor pushes
DtorEof == EofFrame(0)
NoFrame == [id |-> -1, nb |-> 0, meta |-> 0, eof |-> FALSE]

\* a packet: its number in the order of production, its stream_index and
\* the Stream that produced it; nullptr is the EOF sentinel of the packet queue
NullPkt == [id |-> 0, idx |-> -1, src |-> "none"]
NoPkt == [id |-> -1, idx |-> -1, src |-> "none"]
IsPkt(p) == p # NullPkt

Streams == {"v", "a"}

(* ------------------------------- state -------------------------------- *)

VARIABLES
    \* ffmpeg_consumer fields
    realtime_,        \* bool realtime_
    oformat,          \* the container format path_/args_ select
    frame_buffer_,    \* tbb::concurrent_bounded_queue<const_frame>
    joinable,         \* frame_thread_.joinable()
    format_desc_,
    channel_index_,
    \* media thread (stage 2)
    frame_pc,         \* position of the frame_thread_ lambda
    frame,            \* core::const_frame frame (the popped frame)
    strm,             \* the Stream whose send is running
    stream,           \* per Stream: pts, and what its graph and encoder hold
    pkt,              \* the packet handed to packet_cb
    \* packet queue and packet-writer thread (stage 3)
    packet_buffer,
    packet_pc,
    \* destructor
    dtor_pc,
    \* observations
    hist,
    \* the video decoder
    impl_,            \* video_decoder::implementation
    input_,           \* the video packets queued in its input
    dhist,            \* the codec context it is bound to, and observations
    write_frame,      \* the frame a running make_write_frame fills
    \* a Stream on its own
    track,            \* struct Stream, its filter graph and its encoder
    thist,            \* observations of its send calls
    \* the options of a pipeline under construction
    options,          \* std::map<std::string, std::string> options
    ohist             \* how far the construction is, and observations

vars == << realtime_, oformat, frame_buffer_, joinable, format_desc_,
           channel_index_, frame_pc, frame, strm, stream, pkt,
           packet_buffer, packet_pc, dtor_pc, hist, impl_, input_, dhist,
           write_frame, track, thist, options, ohist >>

writerVars == << realtime_, oformat, frame_buffer_, joinable, format_desc_,
                 channel_index_, frame_pc, frame, strm, stream, pkt,
                 packet_buffer, packet_pc, dtor_pc, hist >>
decoderVars == << impl_, input_, dhist, write_frame >>
trackVars == << track, thist >>
optionVars == << options, ohist >>

\* what the operations of the writer, of the decoder, of the Stream on its
\* own and of the construction with options leave alone
exceptWriter == << decoderVars, trackVars, optionVars >>
exceptDecoder == << writerVars, trackVars, optionVars >>
exceptTrack == << writerVars, decoderVars, optionVars >>
exceptOptions == << writerVars, decoderVars, trackVars >>

consumerVars == << realtime_, oformat, format_desc_, channel_index_ >>
stage2Vars == << frame_pc, frame, strm, stream, pkt >>

(* ------------------------- queue primitives --------------------------- *)

\* mutant: the realtime flag is ignored when the capacity is set
CapacityIgnoresRealtime(rt) == FileCapacity

\* ffmpeg_consumer::ffmpeg_consumer: frame_buffer_.set_capacity
Capacity(rt) == IF rt THEN RealtimeCapacity ELSE FileCapacity

\* mutant: a full queue gives up its oldest item for the new one
TryPushLatest(q, cap, x) ==
    IF Len(q) < cap THEN Append(q, x) ELSE Append(Tail(q), x)

\* mutant: the new item is put at the head of the queue
TryPushFront(q, cap, x) == IF Len(q) < cap THEN << x >> \o q ELSE q

\* tbb::concurrent_bounded_queue::try_push as send and the destructor use it:
\* whether the item is taken, and the queue afterwards
TryPushOk(q, cap) == Len(q) < cap
TryPush(q, cap, x) == IF TryPushOk(q, cap) THEN Append(q, x) ELSE q

\* mutant: the packet queue takes every item
CanPushAlways(q) == TRUE

\* the blocking push of packet_cb may proceed
CanPush(q) == Len(q) < PacketCapacity

(* ------------------ the video decoder: pixel formats ------------------ *)

\* native pixel formats (PixelFormat); the last three have no case in
\* get_pixel_format
PixelFormats ==
    { "GRAY8", "BGRA", "ARGB", "RGBA", "ABGR", "YUV444P", "YUV422P",
      "YUV420P", "YUV411P", "YUV410P", "YUVA420P", "RGB24", "YUYV422", "NV12" }

\* get_pixel_format
get_pixel_format(pix_fmt) ==
    CASE pix_fmt = "GRAY8"    -> "gray"
      [] pix_fmt = "BGRA"     -> "bgra"
      [] pix_fmt = "ARGB"     -> "argb"
      [] pix_fmt = "RGBA"     -> "rgba"
      [] pix_fmt = "ABGR"     -> "abgr"
      [] pix_fmt = "YUV444P"  -> "ycbcr"
      [] pix_fmt = "YUV422P"  -> "ycbcr"
      [] pix_fmt = "YUV420P"  -> "ycbcr"
      [] pix_fmt = "YUV411P"  -> "ycbcr"
      [] pix_fmt = "YUV410P"  -> "ycbcr"
      [] pix_fmt = "YUVA420P" -> "ycbcra"
      [] OTHER                -> "invalid"

\* libavutil's descriptor of a pixel format: log2 of the horizontal and of the
\* vertical chroma subsampling
Log2ChromaW(pix_fmt) ==
    CASE pix_fmt \in {"YUV422P", "YUV420P", "YUVA420P", "NV12"} -> 1
      [] pix_fmt \in {"YUV411P", "YUV410P"} -> 2
      [] OTHER -> 0
Log2ChromaH(pix_fmt) ==
    CASE pix_fmt \in {"YUV420P", "YUVA420P", "NV12"} -> 1
      [] pix_fmt = "YUV410P" -> 2
      [] OTHER -> 0

\* (x + (1 << s) - 1) >> s
CeilShift(x, s) == (x + 2^s - 1) \div 2^s

\* avpicture_fill(&dummy_pict, nullptr, pix_fmt, width, height): the line
\* sizes (av_image_fill_linesizes: the bytes of one row, without padding) ...
AvLinesize(pix_fmt, width) ==
    [k \in 0..3 |->
        CASE pix_fmt = "GRAY8" -> IF k = 0 THEN width ELSE 0
          [] pix_fmt \in {"BGRA", "ARGB", "RGBA", "ABGR"} ->
                IF k = 0 THEN 4 * width ELSE 0
          [] pix_fmt = "RGB24" -> IF k = 0 THEN 3 * width ELSE 0
          [] pix_fmt = "YUYV422" -> IF k = 0 THEN 4 * CeilShift(width, 1) ELSE 0
          [] pix_fmt = "NV12" ->
                IF k = 0 THEN width
                ELSE IF k = 1 THEN 2 * CeilShift(width, 1) ELSE 0
          [] OTHER ->
                IF k = 0 THEN width
                ELSE IF k \in {1, 2} THEN CeilShift(width, Log2ChromaW(pix_fmt))
                ELSE IF pix_fmt = "YUVA420P" THEN width ELSE 0]

\* ... the rows of each plane ...
AvPlaneRows(pix_fmt, height) ==
    [k \in 0..3 |->
        IF k \in {1, 2} THEN CeilShift(height, Log2ChromaH(pix_fmt)) ELSE height]

\* ... and the plane pointers (av_image_fill_pointers from the null base:
\* each plane starts where the one before it ends)
RECURSIVE AvData(_, _, _, _)
AvData(pix_fmt, width, height, k) ==
    IF k = 0 THEN 0
    ELSE AvData(pix_fmt, width, height, k - 1)
         + AvPlaneRows(pix_fmt, height)[k - 1] * AvLinesize(pix_fmt, width)[k - 1]

\* core::pixel_format_desc::plane(width, height, channels): a row of the
\* plane takes width * channels bytes
plane(width, height, channels) ==
    [ linesize |-> width * channels, width |-> width, height |-> height,
      size |-> width * height * channels, channels |-> channels ]

\* a core::pixel_format_desc without planes
InvalidDesc == [pix_fmt |-> "invalid", planes |-> << >>]

\* mutant: the descriptor of YCbCr with alpha gets no fourth plane
NoAlphaPlane(kind) == FALSE

\* get_pixel_format_desc: if (desc.pix_fmt == core::pixel_format::ycbcra)
HasAlphaPlane(kind) == kind = "ycbcra"

\* get_pixel_format_desc
get_pixel_format_desc(pix_fmt, width, height) ==
    LET linesize == AvLinesize(pix_fmt, width)
        kind == get_pixel_format(pix_fmt)
        size2 == AvData(pix_fmt, width, height, 2) - AvData(pix_fmt, width, height, 1)
        h2 == size2 \div linesize[1]
    IN  CASE kind = "gray" ->
               [pix_fmt |-> kind,
                planes |-> << plane(linesize[0] \div 4, height, 1) >>]
          [] kind \in {"bgra", "argb", "rgba", "abgr"} ->
               [pix_fmt |-> kind,
                planes |-> << plane(linesize[0] \div 4, height, 4) >>]
          [] kind \in {"ycbcr", "ycbcra"} ->
               [pix_fmt |-> kind,
                planes |-> << plane(linesize[0], height, 1),
                              plane(linesize[1], h2, 1),
                              plane(linesize[2], h2, 1) >>
                           \o (IF HasAlphaPlane(kind)
                               THEN << plane(linesize[3], height, 1) >>
                               ELSE << >>)]
          [] OTHER -> InvalidDesc

(* ------------------ the video decoder: construction ------------------- *)

\* the codec contexts the decoder is constructed on
CodecContexts ==
    [ pix_fmt : PixelFormats, width : 1..MaxWidth, height : 1..MaxHeight ]
NoCodecContext == [pix_fmt |-> "NONE", width |-> 0, height |-> 0]

NoDecoder ==
    [ state |-> "none", pix_fmt_ |-> "NONE", width_ |-> 0, height_ |-> 0,
      desc_ |-> InvalidDesc, sws_context_ |-> FALSE, frame_number_ |-> 0 ]

NoImage == [path |-> "none", planes |-> << >>]

\* no make_write_frame is running
NoWrite ==
    [ pc      |-> "idle",   \* position of make_write_frame
      rows    |-> << >>,    \* per plane, the rows copied into image_data(n)
      scaled  |-> FALSE,    \* sws_scale has filled the frame
      commits |-> << >>,    \* the planes committed by commit(n), in order
      whole   |-> 0 ]       \* calls of commit(), for the whole frame

NoDHist ==
    [ codec    |-> NoCodecContext,  \* input_.get_video_codec_context()
      pad      |-> 0,               \* stride of a decoded plane minus its row
      resolved |-> InvalidDesc,     \* what the constructor's first resolve returned
      error    |-> "none",          \* the exception of the latest call
      decodes  |-> 0,               \* calls of decode
      queued   |-> << >>,           \* the packets the input was given, in order
      receives |-> 0,               \* calls of receive
      popped   |-> 0,               \* packets the latest receive popped
      packets  |-> << >>,           \* the packets decoded, in order
      numbers  |-> << >>,           \* the sequence numbers of the frames produced
      result   |-> << >>,           \* what the latest decode returned
      image    |-> NoImage ]        \* the frame the latest make_write_frame filled

\* mutant: the decoder never falls back to software conversion
NeverConverts(desc) == FALSE

\* video_decoder::implementation: if (desc_.pix_fmt == invalid)
NeedsConversion(desc) == desc.pix_fmt = "invalid"

\* video_decoder::implementation::implementation on codec context c, where
\* sws tells whether sws_getContext hands out a context
implementation(c, sws) ==
    LET native == get_pixel_format_desc(c.pix_fmt, c.width, c.height)
        fields == [ state |-> "constructed", pix_fmt_ |-> c.pix_fmt,
                    width_ |-> c.width, height_ |-> c.height,
                    desc_ |-> native, sws_context_ |-> FALSE,
                    frame_number_ |-> 0 ]
    IN  IF ~NeedsConversion(native) THEN fields
        ELSE IF sws
        THEN [fields EXCEPT
                 !.desc_ = get_pixel_format_desc("BGRA", c.width, c.height),
                 !.sws_context_ = TRUE]
        ELSE [fields EXCEPT
                 !.state = "operation_failed",
                 !.desc_ = get_pixel_format_desc("BGRA", c.width, c.height)]

\* video_decoder::video_decoder
Construct ==
    /\ impl_.state = "none"
    /\ dhist.codec # NoCodecContext
    /\ \E sws \in BOOLEAN :
          /\ impl_' = implementation(dhist.codec, sws)
          /\ dhist' = [dhist EXCEPT
                 !.resolved = get_pixel_format_desc(dhist.codec.pix_fmt,
                                  dhist.codec.width, dhist.codec.height),
                 !.error = IF impl_'.state = "constructed" THEN "none"
                           ELSE impl_'.state]
    /\ UNCHANGED << input_, write_frame, exceptDecoder >>

(* --------------------- the video decoder: decode ---------------------- *)

\* what avcodec_decode_video2 makes of a packet: nullptr is the EOF packet;
\* otherwise the call fails (errn < 0), finishes a frame (frame_finished != 0)
\* or does neither
Packets == { "eof", "error", "frame", "none" }

\* the decoded frame (AVFrame): byte x of row y of plane n, a known pattern
Pattern(n, y, x) == (64 * n + 8 * y + x) % 256
\* a byte of the padding of a row
PadByte == 255

\* decoded_frame->linesize[n]
DecodedLinesize(pix_fmt, width, pad, n) == AvLinesize(pix_fmt, width)[n] + pad

\* decoded_frame->data[n][off]
DecodedByte(pix_fmt, width, pad, n, off) ==
    LET stride == DecodedLinesize(pix_fmt, width, pad, n)
        y == off \div stride
        x == off % stride
    IN  IF x < AvLinesize(pix_fmt, width)[n] THEN Pattern(n, y, x) ELSE PadByte

\* make_write_frame: the frame the frame factory creates has one buffer of
\* plane.size bytes per plane of desc_; without a conversion context each
\* plane is copied line by line,
\*   memcpy(result + y*plane.linesize, decoded + y*decoded_linesize, plane.linesize)
\* for y below the plane's height; with one, sws_scale fills the frame
make_write_frame(d, pad) ==
    IF d.sws_context_
    THEN [path |-> "sws_scale", planes |-> << >>]
    ELSE [path |-> "direct",
          planes |->
            [n \in 1..Len(d.desc_.planes) |->
                LET pl == d.desc_.planes[n]
                    stride == DecodedLinesize(d.pix_fmt_, d.width_, pad, n - 1)
                IN  [off \in 0..(pl.size - 1) |->
                        DecodedByte(d.pix_fmt_, d.width_, pad, n - 1,
                            (off \div pl.linesize) * stride + (off % pl.linesize))]]]

\* mutant: the counter is not reset by the EOF packet
NumberAfterKeepsCounting(video_packet, n) ==
    IF video_packet = "frame" \/ video_packet = "eof" THEN n + 1 ELSE n

\* decode: frame_number_ after the call
NumberAfter(video_packet, n) ==
    CASE video_packet = "eof" -> 0
      [] video_packet = "frame" -> n + 1
      [] OTHER -> n

\* mutant: a negative result of avcodec_decode_video2 is ignored
NeverFails(video_packet) == FALSE

\* decode: if(errn < 0) BOOST_THROW_EXCEPTION(invalid_operation() ...)
DecodeFails(video_packet) == video_packet = "error"

\* video_decoder::implementation::decode
decode(video_packet) ==
    /\ impl_.state = "constructed"
    /\ dhist.decodes < MaxDecodes
    /\ impl_' = [impl_ EXCEPT !.frame_number_ = NumberAfter(video_packet, @)]
    /\ LET made == video_packet = "frame"
           write == make_write_frame(impl_, dhist.pad)
       IN  dhist' = [dhist EXCEPT
               !.decodes = @ + 1,
               !.packets = Append(@, video_packet),
               !.error = IF DecodeFails(video_packet) THEN "invalid_operation"
                         ELSE "none",
               !.result = IF made
                          THEN << [number |-> impl_.frame_number_, frame |-> write] >>
                          ELSE << >>,
               !.numbers = IF made THEN Append(@, impl_.frame_number_) ELSE @,
               !.image = IF made THEN write ELSE @]
    /\ UNCHANGED << input_, write_frame, exceptDecoder >>

Decode == \E video_packet \in Packets : decode(video_packet)

(* ------------ the video decoder: the tasks of make_write_frame ------------ *)

\* the planes of desc_, numbered as in the code
PlaneNumbers == 0..(Len(impl_.desc_.planes) - 1)

\* blocked_range<size_t>(0, desc_.planes[n].height): the rows of plane n
RowsOf(n) == 0..(impl_.desc_.planes[n + 1].height - 1)

\* mutant: the commit of a plane does not wait for its rows
RowsCopiedAtOnce(n) == TRUE

\* the inner tbb::parallel_for of plane n has returned: every row of the
\* blocked range has been copied
RowsCopied(n) == write_frame.rows[n + 1] = RowsOf(n)

\* write->commit(n) has been called
Committed(n) == \E i \in 1..Len(write_frame.commits) : write_frame.commits[i] = n

\* make_write_frame: auto write = frame_factory_->create_frame(this, desc_),
\* and the branch on sws_context_
CreateFrame ==
    /\ impl_.state = "constructed"
    /\ write_frame.pc = "idle"
    /\ write_frame' = [NoWrite EXCEPT
           !.pc = IF impl_.sws_context_ THEN "sws_scale" ELSE "parallel_for",
           !.rows = [n \in 1..Len(impl_.desc_.planes) |-> {}]]
    /\ UNCHANGED << impl_, input_, dhist, exceptDecoder >>

\* a task of the inner parallel_for of plane n copies row y:
\*   memcpy(result + y*plane.linesize, decoded + y*decoded_linesize, plane.linesize)
CopyRow ==
    /\ write_frame.pc = "parallel_for"
    /\ \E n \in PlaneNumbers :
          /\ ~Committed(n)
          /\ \E y \in RowsOf(n) \ write_frame.rows[n + 1] :
                write_frame' = [write_frame EXCEPT !.rows[n + 1] = @ \cup {y}]
    /\ UNCHANGED << impl_, input_, dhist, exceptDecoder >>

\* the task of plane n, after its inner parallel_for: write->commit(n)
Commit(n) ==
    /\ write_frame.pc = "parallel_for"
    /\ n \in PlaneNumbers
    /\ ~Committed(n)
    /\ RowsCopied(n)
    /\ write_frame' = [write_frame EXCEPT !.commits = Append(@, n)]
    /\ UNCHANGED << impl_, input_, dhist, exceptDecoder >>

CommitPlane == \E n \in 0..3 : Commit(n)

\* the conversion: sws_scale(sws_context_.get(), decoded_frame->data, ...)
SwsScale ==
    /\ write_frame.pc = "sws_scale"
    /\ write_frame' = [write_frame EXCEPT !.pc = "commit", !.scaled = TRUE]
    /\ UNCHANGED << impl_, input_, dhist, exceptDecoder >>

\* the conversion: write->commit()
CommitFrame ==
    /\ write_frame.pc = "commit"
    /\ write_frame' = [write_frame EXCEPT
           !.pc = "return", !.whole = @ + 1]
    /\ UNCHANGED << impl_, input_, dhist, exceptDecoder >>

\* the outer tbb::parallel_for has returned: the task of every plane is over
ParallelForReturns ==
    /\ write_frame.pc = "parallel_for"
    /\ \A n \in PlaneNumbers : Committed(n)
    /\ write_frame' = [write_frame EXCEPT !.pc = "return"]
    /\ UNCHANGED << impl_, input_, dhist, exceptDecoder >>

\* make_write_frame: return write
ReturnWrite ==
    /\ write_frame.pc = "return"
    /\ write_frame' = [write_frame EXCEPT !.pc = "returned"]
    /\ dhist' = [dhist EXCEPT !.image = make_write_frame(impl_, dhist.pad)]
    /\ UNCHANGED << impl_, input_, exceptDecoder >>

(* --------------------- the video decoder: receive --------------------- *)

\* mutant: the loop goes on after a frame has been produced
LoopGoesOnWithFrame(n, result) == n < MaxReceive

\* receive: n < 32 && result.empty(), the part of the loop condition that is
\* evaluated before input_.try_pop_video_packet(pkt)
LoopGoesOn(n, result) == n < MaxReceive /\ result = << >>

\* The loop of receive from turn n on: fn is frame_number_, q the queue of
\* the input, result the frames so far, write the frame make_write_frame
\* fills. Each turn pops a packet with try_pop_video_packet and appends
\* decode(pkt) to result; an exception of decode leaves receive. Gives the
\* number of packets popped, frame_number_, the queue, what receive returns
\* and the exception that left it.
RECURSIVE ReceiveLoop(_, _, _, _, _)
ReceiveLoop(n, fn, q, result, write) ==
    IF LoopGoesOn(n, result) /\ q # << >>
    THEN LET video_packet == Head(q)
         IN  IF DecodeFails(video_packet)
             THEN [ popped |-> n + 1, frame_number_ |-> fn, input |-> Tail(q),
                    result |-> << >>, error |-> "invalid_operation" ]
             ELSE ReceiveLoop(n + 1, NumberAfter(video_packet, fn), Tail(q),
                      IF video_packet = "frame"
                      THEN Append(result, [number |-> fn, frame |-> write])
                      ELSE result,
                      write)
    ELSE [ popped |-> n, frame_number_ |-> fn, input |-> q, result |-> result,
           error |-> "none" ]

\* video_decoder::receive
Receive ==
    /\ impl_.state = "constructed"
    /\ dhist.receives < MaxDecodes
    /\ LET write == make_write_frame(impl_, dhist.pad)
           r == ReceiveLoop(0, impl_.frame_number_, input_, << >>, write)
       IN  /\ impl_' = [impl_ EXCEPT !.frame_number_ = r.frame_number_]
           /\ input_' = r.input
           /\ dhist' = [dhist EXCEPT
                  !.receives = @ + 1,
                  !.popped = r.popped,
                  !.packets = @ \o SubSeq(input_, 1, r.popped),
                  !.error = r.error,
                  !.result = r.result,
                  !.numbers = @ \o [i \in 1..Len(r.result) |-> r.result[i].number],
                  !.image = IF r.result # << >> THEN write ELSE @]
    /\ UNCHANGED << write_frame, exceptDecoder >>

(* ------------------ Stream::send, one call at a time ------------------ *)

\* no Stream
NoTrack ==
    [ pc |-> "none", graphq |-> 0, closed |-> FALSE, encq |-> 0,
      draining |-> FALSE ]

\* struct Stream after its construction: the filter graph holds no frame and
\* its source is open, the encoder holds no frame and is not being drained
NewTrack == [NoTrack EXCEPT !.pc = "idle"]

NoTHist ==
    [ sends    |-> 0,       \* calls of send with a frame
      eof      |-> FALSE,   \* send was called with the empty frame
      lastEnc  |-> "none",  \* the latest answer of avcodec_receive_packet
      lastSink |-> "none",  \* the latest answer of av_buffersink_get_frame
      received |-> 0,       \* packets avcodec_receive_packet handed out
      packets  |-> 0,       \* packets handed to cb
      pulled   |-> 0,       \* frames av_buffersink_get_frame handed out
      fed      |-> 0,       \* frames passed to avcodec_send_frame
      nulls    |-> 0,       \* calls avcodec_send_frame(enc.get(), nullptr)
      ret      |-> "none",  \* how the latest call of send ended
      eofRet   |-> "none",  \* how the call with the empty frame ended
      thrown   |-> FALSE ]  \* a call of send has thrown

TrackIdle == track = NoTrack /\ thist = NoTHist

\* what avcodec_receive_packet may answer: "ok" with a packet while the
\* encoder holds a frame; AVERROR(EAGAIN) while it is not being drained and
\* holds at most MaxBuffered frames; AVERROR_EOF once it has been drained;
\* another error at any time
EncoderAnswers(t) ==
    (IF t.encq > 0 THEN {"ok"} ELSE {})
    \cup (IF ~t.draining /\ t.encq <= MaxBuffered THEN {"EAGAIN"} ELSE {})
    \cup (IF t.draining /\ t.encq = 0 THEN {"AVERROR_EOF"} ELSE {})
    \cup {"error"}

\* what av_buffersink_get_frame may answer: "ok" with a frame while the graph
\* holds one; AVERROR(EAGAIN) while its source is open and it holds at most
\* MaxBuffered frames; AVERROR_EOF once the closed graph is empty; another
\* error at any time
SinkAnswers(t) ==
    (IF t.graphq > 0 THEN {"ok"} ELSE {})
    \cup (IF ~t.closed /\ t.graphq <= MaxBuffered THEN {"EAGAIN"} ELSE {})
    \cup (IF t.closed /\ t.graphq = 0 THEN {"AVERROR_EOF"} ELSE {})
    \cup {"error"}

\* mutant: a packet of the encoder is dropped
AfterReceiveDrops(ret) ==
    CASE ret = "EAGAIN" -> "get_frame"
      [] ret = "AVERROR_EOF" -> "return"
      [] ret = "ok" -> "drop"
      [] OTHER -> "throw"

\* the drain loop after ret = avcodec_receive_packet(enc.get(), pkt.get()):
\* EAGAIN goes on to av_buffersink_get_frame, AVERROR_EOF returns, another
\* error throws (FF_RET), a packet is handed to cb
AfterReceive(ret) ==
    CASE ret = "EAGAIN" -> "get_frame"
      [] ret = "AVERROR_EOF" -> "return"
      [] ret = "ok" -> "cb"
      [] OTHER -> "throw"

\* mutant: the loop tries again when the sink has no frame
AfterGetFrameRetries(ret) ==
    CASE ret = "EAGAIN" -> "retry"
      [] ret = "AVERROR_EOF" -> "send_null"
      [] ret = "ok" -> "send_frame"
      [] OTHER -> "throw"

\* mutant: the call returns when the sink reports its end
AfterGetFrameNoFlush(ret) ==
    CASE ret = "EAGAIN" -> "return"
      [] ret = "AVERROR_EOF" -> "return"
      [] ret = "ok" -> "send_frame"
      [] OTHER -> "throw"

\* the drain loop after ret = av_buffersink_get_frame(sink, frame.get()):
\* EAGAIN returns, AVERROR_EOF sends the null frame to the encoder, another
\* error throws (FF_RET), a frame is sent to the encoder
AfterGetFrame(ret) ==
    CASE ret = "EAGAIN" -> "return"
      [] ret = "AVERROR_EOF" -> "send_null"
      [] ret = "ok" -> "send_frame"
      [] OTHER -> "throw"

\* a call of send ends: it returns, or it throws and the Stream is destroyed
\* with the try block of frame_thread_
Returns(t, h, how) ==
    /\ track' = [t EXCEPT !.pc = IF how = "throw" THEN "thrown" ELSE "idle"]
    /\ thist' = [h EXCEPT !.ret = how,
                          !.eofRet = IF h.eof THEN how ELSE @,
                          !.thrown = (@ \/ how = "throw")]

\* Stream::send up to the drain loop: a frame is written to the source of the
\* graph with av_buffersrc_write_frame, the empty frame closes the source
\* with av_buffersrc_close; either call may fail (FF). The callers send no
\* frame after the empty one.
StreamSend ==
    /\ track.pc = "idle"
    /\ ~thist.eof
    /\ \E in_frame \in BOOLEAN, ok \in BOOLEAN :
          /\ in_frame => thist.sends < MaxSends
          /\ LET h == IF in_frame THEN [thist EXCEPT !.sends = @ + 1]
                      ELSE [thist EXCEPT !.eof = TRUE]
                 t == IF in_frame THEN [track EXCEPT !.graphq = @ + 1]
                      ELSE [track EXCEPT !.closed = TRUE]
             IN  IF ok
                 THEN /\ track' = [t EXCEPT !.pc = "receive"]
                      /\ thist' = [h EXCEPT !.ret = "none"]
                 ELSE Returns(track, h, "throw")
    /\ UNCHANGED exceptTrack

\* one turn of while (true): ret = avcodec_receive_packet(enc.get(), pkt.get())
\* and, for a packet, cb(std::move(pkt))
ReceivePacket ==
    /\ track.pc = "receive"
    /\ \E ret \in EncoderAnswers(track) :
          LET h == [thist EXCEPT !.lastEnc = ret,
                                 !.received = IF ret = "ok" THEN @ + 1 ELSE @]
              t == IF ret = "ok" THEN [track EXCEPT !.encq = @ - 1] ELSE track
              then == AfterReceive(ret)
          IN  CASE then = "get_frame" ->
                     /\ track' = [t EXCEPT !.pc = "get_frame"]
                     /\ thist' = h
                [] then = "cb" ->
                     /\ track' = t
                     /\ thist' = [h EXCEPT !.packets = @ + 1]
                [] then = "drop" ->
                     /\ track' = t
                     /\ thist' = h
                [] then = "return" -> Returns(t, h, "enc_eof")
                [] OTHER -> Returns(t, h, "throw")
    /\ UNCHANGED exceptTrack

\* the EAGAIN branch: ret = av_buffersink_get_frame(sink, frame.get()) and
\* avcodec_send_frame with the frame or with nullptr, which may fail (FF)
GetFrame ==
    /\ track.pc = "get_frame"
    /\ \E ret \in SinkAnswers(track), ok \in BOOLEAN :
          LET h == [thist EXCEPT !.lastSink = ret,
                                 !.pulled = IF ret = "ok" THEN @ + 1 ELSE @]
              t == IF ret = "ok" THEN [track EXCEPT !.graphq = @ - 1] ELSE track
              then == AfterGetFrame(ret)
          IN  CASE then = "send_frame" ->
                     IF ok
                     THEN /\ track' = [t EXCEPT !.encq = @ + 1, !.pc = "receive"]
                          /\ thist' = [h EXCEPT !.fed = @ + 1]
                     ELSE Returns(t, [h EXCEPT !.fed = @ + 1], "throw")
                [] then = "send_null" ->
                     IF ok
                     THEN /\ track' = [t EXCEPT !.draining = TRUE, !.pc = "receive"]
                          /\ thist' = [h EXCEPT !.nulls = @ + 1]
                     ELSE Returns(t, [h EXCEPT !.nulls = @ + 1], "throw")
                [] then = "retry" ->
                     /\ track' = [t EXCEPT !.pc = "receive"]
                     /\ thist' = h
                [] then = "return" -> Returns(t, h, "sink_again")
                [] OTHER -> Returns(t, h, "throw")
    /\ UNCHANGED exceptTrack

(* ---------------- the options before the construction --------------- *)

\* the empty option map
NoOptions == << >>


\* the callees the options are passed to
Callees == {"v", "a", "io", "mux"}

NoOHist ==
    [ pc      |-> "none",    \* the next step of the construction
      args    |-> NoOptions, \* the options the arguments gave
      before  |-> [s \in Streams |-> NoOptions],   \* the shared map before Stream::Stream
      after   |-> [s \in Streams |-> NoOptions],   \* and after it
      named   |-> [s \in Streams |-> FALSE],  \* the track had a "codec" option
      result  |-> [s \in Streams |-> "none"], \* how Stream::Stream ended
      calls   |-> [s \in Streams |-> << >>],  \* its calls on container and encoder
      called  |-> {},        \* the callees that were passed a dictionary
      passed  |-> [c \in Callees |-> NoOptions],   \* the dictionary passed
      unused  |-> {},        \* the callees that left an option in their dictionary
      logged  |-> NoOptions ]  \* the options logged as "Unused option"

OptionsIdle == options = NoOptions /\ ohist = NoOHist

(* --------------------------- construction ----------------------------- *)

NoHist ==
    [ sendLimit  |-> MaxSends, \* calls of send the callers make in all
      writeOk    |-> 0,        \* packets the container is sure to take
      sendCalls  |-> 0,        \* calls of send so far
      lastSend   |-> NoFrame,  \* the frame of the latest send call
      lastRet    |-> FALSE,    \* the value of the future it returned
      dropped    |-> 0,        \* "dropped-frame" tags set on graph_
      accepted   |-> << >>,    \* items try_push put on frame_buffer_, in order
      lastInit   |-> "none",   \* how the latest initialize call ended
      spawnInit  |-> "none",   \* how the initialize call that started the thread ended
      started    |-> 0,        \* media threads started
      buildError |-> "none",   \* the failure that ended the pipeline's construction
      ctorEvents |-> [s \in Streams |-> << >>],  \* per Stream constructed: what was done to its encoder, in order
      header     |-> FALSE,    \* avformat_write_header succeeded
      processed  |-> << >>,    \* frames stage 2 popped, in order
      stamped    |-> [s \in Streams |-> << >>],  \* per stream: the pts stamped and its increment
      eofSends   |-> << >>,    \* the streams whose send was called with the empty frame, in order
      enqueued   |-> << >>,    \* items pushed on packet_buffer, in order
      produced   |-> 0,        \* packets the encoders handed out
      eofPopped  |-> 0,        \* EOF sentinel packets stage 3 popped
      released   |-> 0,        \* pushes of stage 2 that waited for space and got it
      written    |-> << >>,    \* packets av_interleaved_write_frame wrote
      trailers   |-> 0,        \* successful av_write_trailer calls
      ioClosed   |-> FALSE,    \* avio_closep succeeded
      exc2       |-> FALSE,    \* stage 2 left its loop by an exception
      exc3       |-> FALSE,    \* stage 3 ended in its catch block
      thrown3    |-> "none",   \* the call whose exception took it there
      aborted    |-> FALSE ]   \* the catch block has called packet_buffer.abort()

\* struct Stream after construction: int64_t pts = 0; nothing is buffered in
\* the filter graph (graphq frames) or in the encoder (encq frames), the
\* graph's source is not closed and the encoder is not being flushed
NewStream == [pts |-> 0, graphq |-> 0, closed |-> FALSE, encq |-> 0, flush |-> FALSE]

\* the state after ffmpeg_consumer::ffmpeg_consumer
WriterInit ==
    /\ realtime_ \in { IsRealtime(token) : token \in LeadingTokens }
    /\ oformat \in OutputFormats
    /\ frame_buffer_ = << >>
    /\ joinable = FALSE
    /\ format_desc_ = NoFormatDesc
    /\ channel_index_ = PathCrc
    /\ frame_pc = "idle"
    /\ frame = NoFrame
    /\ strm = "none"
    /\ stream = [s \in Streams |-> NewStream]
    /\ pkt = NoPkt
    /\ packet_buffer = << >>
    /\ packet_pc = "idle"
    /\ dtor_pc = "alive"
    /\ hist = NoHist

\* a writer, and no video decoder
Init ==
    /\ WriterInit
    /\ impl_ = NoDecoder
    /\ input_ = << >>
    /\ write_frame = NoWrite
    /\ dhist = NoDHist
    /\ TrackIdle
    /\ OptionsIdle

\* a codec context to construct a video decoder on, whose decoder pads the
\* rows of its frames by pad bytes; and a writer that is left alone
DecoderInit ==
    /\ WriterInit
    /\ ~realtime_ /\ oformat.video /\ oformat.audio
    /\ impl_ = NoDecoder
    /\ input_ = << >>
    /\ write_frame = NoWrite
    /\ \E c \in CodecContexts, pad \in 0..MaxPad :
          dhist = [NoDHist EXCEPT !.codec = c, !.pad = pad]
    /\ TrackIdle
    /\ OptionsIdle

(* ------------------------ the callers' operations --------------------- *)

\* ffmpeg_consumer::send: the future it returns is ready and holds true
SendResult(q, cap, f) == TRUE

\* "dropped-frame" tags after a send
SendDropped(q, cap, d) == IF TryPushOk(q, cap) THEN d ELSE d + 1

\* ffmpeg_consumer::send
send(f) ==
    /\ dtor_pc = "alive"
    /\ hist.sendCalls < hist.sendLimit
    /\ LET cap == Capacity(realtime_)
           ok == TryPushOk(frame_buffer_, cap)
       IN  /\ frame_buffer_' = TryPush(frame_buffer_, cap, f)
           /\ hist' = [hist EXCEPT
                  !.sendCalls = @ + 1,
                  !.lastSend = f,
                  !.lastRet = SendResult(frame_buffer_, cap, f),
                  !.dropped = SendDropped(frame_buffer_, cap, @),
                  !.accepted = IF ok THEN Append(@, f) ELSE @]
    /\ UNCHANGED << exceptWriter, consumerVars, joinable, stage2Vars, packet_buffer,
                    packet_pc, dtor_pc >>

Send == \E f \in FrameInputs(hist.sendCalls + 1) : send(f)

\* mutant: the guard asks whether the media thread is still running
CannotReinitializeWhileRunning(j) == j /\ frame_pc # "done"

\* ffmpeg_consumer::initialize: the guard on frame_thread_.joinable()
CannotReinitialize(j) == j

\* ffmpeg_consumer::initialize
initialize(format_desc, channel_index) ==
    /\ dtor_pc = "alive"
    /\ IF CannotReinitialize(joinable)
       THEN /\ hist' = [hist EXCEPT !.lastInit = "invalid_operation"]
            /\ UNCHANGED << format_desc_, channel_index_, joinable, frame_pc >>
       ELSE /\ format_desc_' = format_desc
            /\ channel_index_' = channel_index
            /\ joinable' = TRUE
            /\ frame_pc' = "alloc"
            /\ hist' = [hist EXCEPT !.lastInit = "returned",
                                    !.spawnInit = "returned",
                                    !.started = @ + 1]
    /\ UNCHANGED << exceptWriter, realtime_, oformat, frame_buffer_, frame, strm, stream,
                    pkt, packet_buffer, packet_pc, dtor_pc >>

\* the caller's first call of initialize, with the first format description
\* and channel index
Initialize ==
    \E fd \in FormatDescs, ci \in ChannelIndexes :
        /\ hist.lastInit = "none"
        /\ fd = "PAL" /\ ci = 1
        /\ initialize(fd, ci)

\* a caller that calls initialize again, with the other format description
\* and channel index
Reinitialize ==
    \E fd \in FormatDescs, ci \in ChannelIndexes :
        /\ hist.lastInit # "none"
        /\ fd # "PAL" /\ ci # 1
        /\ initialize(fd, ci)

\* ffmpeg_consumer::~ffmpeg_consumer, up to the join
Destroy ==
    /\ dtor_pc = "alive"
    /\ IF joinable
       THEN /\ frame_buffer_' = TryPush(frame_buffer_, Capacity(realtime_), DtorEof)
            /\ hist' = [hist EXCEPT !.accepted =
                   IF TryPushOk(frame_buffer_, Capacity(realtime_))
                   THEN Append(@, DtorEof) ELSE @]
            /\ dtor_pc' = "join"
       ELSE /\ dtor_pc' = "destroyed"
            /\ UNCHANGED << frame_buffer_, hist >>
    /\ UNCHANGED << exceptWriter, consumerVars, joinable, stage2Vars, packet_buffer,
                    packet_pc >>

\* frame_thread_.join() returns once the thread function has returned
DestroyJoin ==
    /\ dtor_pc = "join"
    /\ frame_pc = "done"
    /\ dtor_pc' = "destroyed"
    /\ joinable' = FALSE
    /\ UNCHANGED << exceptWriter, consumerVars, frame_buffer_, stage2Vars, packet_buffer,
                    packet_pc, hist >>

(* ------------------- Stream: construction and send -------------------- *)

\* what decides the outcome of Stream::Stream: the encoder lookup, the parse
\* of the filter spec, the open inputs and outputs of the parsed graph, the
\* media type of the output pad and avcodec_open2
StreamConfigs ==
    [ codec : BOOLEAN, parse : BOOLEAN, inputs : 0..2, outputs : 0..2,
      pad : BOOLEAN, open : BOOLEAN ]

\* mutant: the open inputs and outputs of the parsed graph are not counted
StreamCtorAnyCount(cfg) ==
    IF ~cfg.codec THEN "encoder_not_found"
    ELSE IF ~cfg.parse THEN "avfilter_graph_parse2"
    ELSE IF ~cfg.pad THEN "invalid_filter_output_media_type"
    ELSE IF ~cfg.open THEN "avcodec_open2"
    ELSE "ok"

\* Stream::Stream: the first check that fails, in the order of the code
StreamCtor(cfg) ==
    IF ~cfg.codec THEN "encoder_not_found"
    ELSE IF ~cfg.parse THEN "avfilter_graph_parse2"
    ELSE IF cfg.inputs # 1 THEN "invalid_filter_graph_input_count"
    ELSE IF cfg.outputs # 1 THEN "invalid_filter_graph_output_count"
    ELSE IF ~cfg.pad THEN "invalid_filter_output_media_type"
    ELSE IF ~cfg.open THEN "avcodec_open2"
    ELSE "ok"

StreamCtorResults == { StreamCtor(cfg) : cfg \in StreamConfigs }

\* Stream::Stream: what a construction that ended with result does to its
\* encoder, in the order of the code: FF(avcodec_open2(enc.get(), codec,
\* &dict)) and, after it, if (oc->oformat->flags & AVFMT_GLOBALHEADER)
\* enc->flags |= AV_CODEC_FLAG_GLOBAL_HEADER
StreamCtorEvents(result, globalheader) ==
    IF result = "ok"
    THEN << "avcodec_open2" >>
         \o (IF globalheader THEN << "AV_CODEC_FLAG_GLOBAL_HEADER" >> ELSE << >>)
    ELSE << >>

\* the Streams the try block of frame_thread_ constructs before its first
\* failure, with the results of their constructions
StreamsBuilt(fmt, alloc, video, audio) ==
    [s \in Streams |->
        IF s = "v"
        THEN IF alloc /\ fmt.video THEN video ELSE "none"
        ELSE IF alloc /\ fmt.audio /\ (fmt.video => video = "ok")
             THEN audio ELSE "none"]

\* mutant: the result of avformat_write_header is not looked at
BuildPipelineIgnoresHeader(fmt, alloc, video, audio, io, header) ==
    IF ~alloc THEN "avformat_alloc_output_context2"
    ELSE IF fmt.video /\ video # "ok" THEN video
    ELSE IF fmt.audio /\ audio # "ok" THEN audio
    ELSE IF ~fmt.nofile /\ ~io THEN "avio_open2"
    ELSE "ok"

\* the try block of frame_thread_ up to the start of packet_thread: the
\* first step that fails, in the order of the code
BuildPipeline(fmt, alloc, video, audio, io, header) ==
    IF ~alloc THEN "avformat_alloc_output_context2"
    ELSE IF fmt.video /\ video # "ok" THEN video
    ELSE IF fmt.audio /\ audio # "ok" THEN audio
    ELSE IF ~fmt.nofile /\ ~io THEN "avio_open2"
    ELSE IF ~header THEN "avformat_write_header"
    ELSE "ok"

(* ------------------ the options of the construction ------------------ *)

\* A key or a value of the option map is a string, modelled by the sequence
\* of its parts; the suffixes of the two tracks, the two keys the constructor
\* of a Stream takes for itself, and an option of an encoder or a container
VideoSuffix == << ":", "v" >>
AudioSuffix == << ":", "a" >>
Suffix(s) == IF s = "v" THEN VideoSuffix ELSE AudioSuffix
FilterKey == << "filter" >>
CodecKey == << "codec" >>
PlainKey == << "k" >>

\* the keys and the value the arguments of the consumer give: some of -k 1,
\* -k:v 1, -k:a 1, -codec:v 1 and -filter:v 1
OptionKeys ==
    { PlainKey, PlainKey \o VideoSuffix, PlainKey \o AudioSuffix,
      CodecKey \o VideoSuffix, FilterKey \o VideoSuffix }
OptionValues == { << "1" >> }
OptionMaps == UNION { [keys -> OptionValues] : keys \in SUBSET OptionKeys }

\* boost::algorithm::ends_with(p.first, suffix)
ends_with(key, suffix) ==
    /\ Len(key) >= Len(suffix)
    /\ SubSeq(key, Len(key) - Len(suffix) + 1, Len(key)) = suffix

\* p.first.substr(0, p.first.size() - suffix.size())
StripSuffix(key, suffix) == SubSeq(key, 1, Len(key) - Len(suffix))

\* a std::map without some of its keys, and with an entry set by operator[]
Without(map, keys) == [k \in DOMAIN map \ keys |-> map[k]]
With(map, key, value) ==
    [k \in DOMAIN map \cup {key} |-> IF k = key THEN value ELSE map[k]]

\* to_dict: the entries whose value is not empty; to_map gives back the
\* entries the callee has left in the dictionary
to_dict(map) == Without(map, { k \in DOMAIN map : map[k] = << >> })

\* the entries of dict that a callee which recognizes the keys in known
\* leaves in it
to_map(dict, known) == Without(dict, known)

\* Stream::Stream, lines 128-140: the options of this track, with their
\* suffix removed, are moved out of the shared map
StreamOptions(suffix, map) ==
    [k \in { StripSuffix(q, suffix) : q \in { p \in DOMAIN map : ends_with(p, suffix) } }
        |-> map[k \o suffix]]
SharedOptions(suffix, map) ==
    Without(map, { p \in DOMAIN map : ends_with(p, suffix) })

\* mutant: an unknown codec name falls back to the default encoder
CodecLookupFallsBack(stream_options, default, byname) ==
    IF CodecKey \in DOMAIN stream_options THEN (byname \/ default) ELSE default

\* lines 153-160: auto codec = avcodec_find_encoder(codec_id), replaced by
\* avcodec_find_encoder_by_name when the track has a "codec" option; tells
\* whether codec is set afterwards
CodecLookup(stream_options, default, byname) ==
    IF CodecKey \in DOMAIN stream_options THEN byname ELSE default

\* what decides the outcome of Stream::Stream besides its options: the two
\* encoder lookups, the parse of the filter spec, the open inputs and outputs
\* of the parsed graph, the media type of the output pad, avcodec_open2, and
\* the option keys the encoder recognizes
StreamEnvs ==
    [ default : BOOLEAN, byname : BOOLEAN, parse : BOOLEAN, inputs : 0..2,
      outputs : 0..2, pad : BOOLEAN, open : BOOLEAN,
      known : SUBSET {PlainKey} ]
\* the calls of Stream::Stream on the container and on the encoder, in the
\* order of the code: st = avformat_new_stream(oc, nullptr) of line 284 and
\* avcodec_open2 of line 325 follow every check of the filter graph
StreamCtorCalls(result) ==
    IF result \in {"avcodec_open2", "ok"}
    THEN << "avformat_new_stream", "avcodec_open2" >>
    ELSE << >>

\* Stream::Stream, lines 128-160 and 323: what the constructor makes of the
\* shared map before it looks at its environment. "filter" is taken out of
\* the options of the track and is put back without a value by
\* std::move(stream_options["filter"]); "codec" is taken out; the rest goes
\* to the dictionary of avcodec_open2.
Partition(suffix, map) ==
    LET mine == StreamOptions(suffix, map)
        nofilter == With(Without(mine, {FilterKey}), FilterKey, << >>)
    IN  [ named  |-> CodecKey \in DOMAIN nofilter,
          lookup |-> nofilter,
          dict   |-> to_dict(Without(nofilter, {CodecKey})),
          shared |-> SharedOptions(suffix, map) ]

\* Stream::Stream(oc, suffix, codec_id, format_desc, options) in environment
\* env, given the partition p of its options: its result, the dictionary it
\* passes to avcodec_open2, its calls, and the shared map afterwards. The
\* options the encoder has left in the dictionary are written to the shared
\* map by
\*     for (auto& p : to_map(&dict)) options[p.first] = suffix + p.second;
Stream(suffix, p, env) ==
    LET result == StreamCtor([ codec |-> CodecLookup(p.lookup, env.default, env.byname),
                               parse |-> env.parse, inputs |-> env.inputs,
                               outputs |-> env.outputs, pad |-> env.pad,
                               open |-> env.open ])
        opened == result \in {"avcodec_open2", "ok"}
        left == to_map(p.dict, env.known)
    IN  [ result  |-> result,
          calls   |-> StreamCtorCalls(result),
          opened  |-> opened,
          dict    |-> IF opened THEN p.dict ELSE NoOptions,
          left    |-> IF result = "ok" THEN left ELSE NoOptions,
          options |-> IF result = "ok"
                      THEN [k \in DOMAIN p.shared \cup DOMAIN left |->
                               IF k \in DOMAIN left THEN suffix \o left[k]
                               ELSE p.shared[k]]
                      ELSE p.shared ]

\* video_stream.emplace(oc, ":v", ...) and audio_stream.emplace(oc, ":a", ...)
\* of frame_thread_, each if the container has a codec of that kind
ConstructStream(s, next) ==
    /\ ohist.pc = s
    /\ IF (IF s = "v" THEN oformat.video ELSE oformat.audio)
       THEN LET p == Partition(Suffix(s), options)
            IN  \E env \in StreamEnvs :
                   LET r == Stream(Suffix(s), p, env)
                   IN  /\ options' = r.options
                       /\ ohist' = [ohist EXCEPT
                              !.pc = IF r.result = "ok" THEN next ELSE "failed",
                              !.before[s] = options,
                              !.after[s] = r.options,
                              !.named[s] = p.named,
                              !.result[s] = r.result,
                              !.calls[s] = r.calls,
                              !.called = IF r.opened THEN @ \cup {s} ELSE @,
                              !.passed[s] = r.dict,
                              !.unused = IF r.left # NoOptions
                                         THEN @ \cup {s} ELSE @]
       ELSE /\ ohist' = [ohist EXCEPT !.pc = next]
            /\ UNCHANGED options
    /\ UNCHANGED exceptOptions

ConstructVideo == ohist.pc = "v" /\ ConstructStream("v", "a")
ConstructAudio == ohist.pc = "a" /\ ConstructStream("a", "io")

\* lines 504-510: unless AVFMT_NOFILE, avio_open2 is passed the shared map
\* and what it leaves in the dictionary becomes the shared map
OpenIo ==
    /\ ohist.pc = "io"
    /\ IF ~oformat.nofile
       THEN \E ok \in BOOLEAN, known \in SUBSET {PlainKey} :
               LET dict == to_dict(options)
               IN  /\ options' = IF ok THEN to_map(dict, known) ELSE NoOptions
                   /\ ohist' = [ohist EXCEPT
                          !.pc = IF ok THEN "mux" ELSE "failed",
                          !.called = @ \cup {"io"},
                          !.passed["io"] = dict]
       ELSE /\ ohist' = [ohist EXCEPT !.pc = "mux"]
            /\ UNCHANGED options
    /\ UNCHANGED exceptOptions

\* lines 512-523: avformat_write_header is passed the shared map; what it
\* leaves in the dictionary is logged as unused
WriteHeader ==
    /\ ohist.pc = "mux"
    /\ \E ok \in BOOLEAN, known \in SUBSET {PlainKey} :
          LET dict == to_dict(options)
          IN  /\ options' = IF ok THEN to_map(dict, known) ELSE NoOptions
              /\ ohist' = [ohist EXCEPT
                     !.pc = IF ok THEN "built" ELSE "failed",
                     !.called = @ \cup {"mux"},
                     !.passed["mux"] = dict,
                     !.logged = IF ok THEN to_map(dict, known) ELSE NoOptions]
    /\ UNCHANGED exceptOptions

\* st->index: avformat_new_stream numbers the tracks in creation order, the
\* video Stream being constructed first
StreamIndex(s) == IF s = "v" THEN 0 ELSE IF oformat.video THEN 1 ELSE 0

\* mutant: the packet keeps the stream_index of a fresh packet
PacketIndexUnset(s) == 0

\* Stream::send: pkt->stream_index = st->index
PacketIndex(s) == StreamIndex(s)

\* mutant: the timestamp is taken from the input frame's metadata
StampFromFrame(s, p, f) == f.meta

\* Stream::send: frame->pts = pts
StampPts(s, p, f) == p

\* Stream::send: pts += 1 (video), pts += frame->nb_samples (audio)
PtsIncrement(s, f) == IF s = "v" THEN 1 ELSE f.nb

\* mutant: the loop sends a frame to the video stream only
NextStreamVideoOnly(s) == "none"

\* the streams the loop of frame_thread_ sends a frame to, in order
FirstStream == IF oformat.video THEN "v" ELSE IF oformat.audio THEN "a" ELSE "none"
NextStream(s) == IF s = "v" /\ oformat.audio THEN "a" ELSE "none"

\* mutant: the loop does not end on the EOF sentinel frame
AfterSendsNeverBreaks(f) == "pop"

\* where frame_thread_ continues after the frame has been sent to every
\* stream: if (!frame) { push(nullptr); break; }
AfterSends(f) == IF IsFrame(f) THEN "pop" ELSE "push_eof"

\* The drain loop of Stream::send, run from stream state L until it hands a
\* packet to the callback ("pkt"), returns ("return") or throws ("throw").
\* The encoder and the filter graph decide what they answer: an encoder that
\* holds at most MaxBuffered frames may answer EAGAIN, one that is being
\* flushed hands out what it holds and then answers AVERROR_EOF; the sink
\* hands out the frames written to the graph (the default "null"/"anull"
\* graph holds nothing back), answers EAGAIN when the graph is empty and its
\* source is open, and AVERROR_EOF once the closed graph is empty.
RECURSIVE DrainRun(_)
DrainRun(L) ==
    LET encAgain == ~L.flush /\ L.encq <= MaxBuffered
    IN  (IF L.encq > 0
         THEN { [out |-> "pkt", st |-> [L EXCEPT !.encq = @ - 1]] } ELSE {})
        \cup
        (IF encAgain /\ L.graphq > 0
         THEN DrainRun([L EXCEPT !.graphq = @ - 1, !.encq = @ + 1]) ELSE {})
        \cup
        (IF encAgain /\ L.closed /\ L.graphq = 0
         THEN DrainRun([L EXCEPT !.flush = TRUE]) ELSE {})
        \cup
        (IF encAgain /\ ~L.closed /\ L.graphq = 0
         THEN { [out |-> "return", st |-> L] } ELSE {})
        \cup
        (IF L.flush /\ L.encq = 0
         THEN { [out |-> "return", st |-> L] } ELSE {})
        \cup
        { [out |-> "throw", st |-> L] }

Outcome(out, s, S, T) == [out |-> out, strm |-> s, stream |-> S, trace |-> T]

\* what the calls of Stream::send have done so far: the timestamps stamped
\* and the streams that were sent the empty frame
Trace(h) == [stamped |-> h.stamped, eofSends |-> h.eofSends]

\* Stream::send(f) on stream s and then on the streams after it, up to the
\* next packet handed to packet_cb: S is the state of the streams, T the
\* trace of the calls so far
RECURSIVE SendRun(_, _, _, _)
RECURSIVE DrainCont(_, _, _, _)
SendRun(f, s, S, T) ==
    LET L1 == IF IsFrame(f)
              THEN [S[s] EXCEPT !.pts = @ + PtsIncrement(s, f), !.graphq = @ + 1]
              ELSE [S[s] EXCEPT !.closed = TRUE]
        T1 == IF IsFrame(f)
              THEN [T EXCEPT !.stamped[s] =
                       Append(@, [pts |-> StampPts(s, S[s].pts, f),
                                  inc |-> PtsIncrement(s, f),
                                  id  |-> f.id])]
              ELSE [T EXCEPT !.eofSends = Append(@, s)]
    IN  \* av_buffersrc_write_frame or av_buffersrc_close fails
        { Outcome("throw", s, S, T1) }
        \cup DrainCont(f, s, [S EXCEPT ![s] = L1], T1)

DrainCont(f, s, S, T) ==
    UNION { IF r.out = "pkt"
            THEN { Outcome("pkt", s, [S EXCEPT ![s] = r.st], T) }
            ELSE IF r.out = "throw"
            THEN { Outcome("throw", s, S, T) }
            ELSE IF NextStream(s) = "none"
            THEN { Outcome("done", "none", [S EXCEPT ![s] = r.st], T) }
            ELSE SendRun(f, NextStream(s), [S EXCEPT ![s] = r.st], T)
          : r \in DrainRun(S[s]) }

(* ----------------------- stage 2: the media thread -------------------- *)

\* mutant: packet_thread.join() returns without waiting for the thread
JoinedAtOnce(pc) == TRUE

\* packet_thread.join() returns once the thread function of packet_thread has
\* returned
Joined(pc) == pc = "done"

\* mutant: the scope exit does not ask packet_thread.joinable()
ScopeExitAlways(joined) == "exit_push"

\* CASPAR_SCOPE_EXIT { if (packet_thread.joinable()) { push(nullptr); abort();
\* join(); } }: where the thread function goes when the try block is left,
\* given whether packet_thread has been joined already
ScopeExit(joined) == IF joined THEN "done" ELSE "exit_push"

\* the locals of the thread function are destroyed when its try block is left
NoStreams == [s \in Streams |-> NewStream]

\* the try block of frame_thread_ from avformat_alloc_output_context2 to the
\* start of packet_thread; a failure goes to the catch block of the thread
FrameThread_Build ==
    /\ frame_pc = "alloc"
    /\ \E alloc \in BOOLEAN, video \in StreamCtorResults,
          audio \in StreamCtorResults, io \in BOOLEAN, header \in BOOLEAN :
          LET res == BuildPipeline(oformat, alloc, video, audio, io, header)
              built == StreamsBuilt(oformat, alloc, video, audio)
              events == [s \in Streams |->
                            StreamCtorEvents(built[s], oformat.globalheader)]
          IN  IF res = "ok"
              THEN /\ frame_pc' = "pop"
                   /\ packet_pc' = "pop"
                   /\ hist' = [hist EXCEPT !.header = header,
                                           !.ctorEvents = events]
              ELSE /\ frame_pc' = "done"
                   /\ hist' = [hist EXCEPT !.buildError = res,
                                           !.ctorEvents = events]
                   /\ UNCHANGED packet_pc
    /\ UNCHANGED << exceptWriter, consumerVars, frame_buffer_, joinable, frame, strm,
                    stream, pkt, packet_buffer, dtor_pc >>

\* stage 2 runs on from outcome o of the sends of frame f: it stands at
\* packet_cb with a packet, or is through with the frame, or an exception
\* leaves the loop and CASPAR_SCOPE_EXIT runs
Stage2Continues(f, o, h) ==
    /\ frame_pc' = CASE o.out = "pkt" -> "cb"
                     [] o.out = "done" -> AfterSends(f)
                     [] OTHER -> ScopeExit(FALSE)
    /\ frame' = IF o.out = "throw" THEN NoFrame ELSE f
    /\ strm' = IF o.out = "pkt" THEN o.strm ELSE "none"
    /\ stream' = IF o.out = "throw" THEN NoStreams ELSE o.stream
    /\ pkt' = IF o.out = "pkt"
              THEN [id |-> h.produced + 1, idx |-> PacketIndex(o.strm),
                    src |-> o.strm]
              ELSE NoPkt
    /\ hist' = [h EXCEPT !.stamped = o.trace.stamped,
                         !.eofSends = o.trace.eofSends,
                         !.produced = IF o.out = "pkt" THEN @ + 1 ELSE @,
                         !.exc2 = (@ \/ o.out = "throw")]

\* frame_buffer_.pop(frame), then video_stream->send and audio_stream->send
\* up to the first packet
FrameThread_Pop ==
    /\ frame_pc = "pop"
    /\ frame_buffer_ # << >>
    /\ frame_buffer_' = Tail(frame_buffer_)
    /\ LET f == Head(frame_buffer_)
           h == [hist EXCEPT !.processed = Append(@, f)]
       IN  IF FirstStream = "none"
           THEN Stage2Continues(f, Outcome("done", "none", stream, Trace(hist)), h)
           ELSE \E o \in SendRun(f, FirstStream, stream, Trace(hist)) :
                   Stage2Continues(f, o, h)
    /\ UNCHANGED << exceptWriter, consumerVars, joinable, packet_buffer, packet_pc, dtor_pc >>

\* packet_cb: packet_buffer.push(std::move(pkt)), then the drain loop and the
\* remaining sends of the frame up to the next packet
packet_cb ==
    /\ frame_pc = "cb"
    /\ CanPush(packet_buffer)
    /\ packet_buffer' = Append(packet_buffer, pkt)
    /\ \E o \in DrainCont(frame, strm, stream, Trace(hist)) :
          Stage2Continues(frame, o, [hist EXCEPT !.enqueued = Append(@, pkt)])
    /\ UNCHANGED << exceptWriter, consumerVars, frame_buffer_, joinable, packet_pc, dtor_pc >>

\* if (!frame) { packet_buffer.push(nullptr); break; }
FrameThread_PushEof ==
    /\ frame_pc = "push_eof"
    /\ CanPush(packet_buffer)
    /\ packet_buffer' = Append(packet_buffer, NullPkt)
    /\ hist' = [hist EXCEPT !.enqueued = Append(@, NullPkt)]
    /\ frame_pc' = "join"
    /\ UNCHANGED << exceptWriter, consumerVars, frame_buffer_, joinable, frame, strm,
                    stream, pkt, packet_pc, dtor_pc >>

\* packet_thread.join() after the loop; then the scope exit runs
FrameThread_Join ==
    /\ frame_pc = "join"
    /\ Joined(packet_pc)
    /\ frame_pc' = ScopeExit(TRUE)
    /\ frame' = NoFrame
    /\ stream' = NoStreams
    /\ UNCHANGED << exceptWriter, consumerVars, frame_buffer_, joinable, strm, pkt,
                    packet_buffer, packet_pc, dtor_pc, hist >>

\* tbb::concurrent_bounded_queue::abort as seen by stage 3: a pop that waits
\* on the empty queue throws tbb::user_abort
AbortedPop(pc, q) == pc = "pop" /\ q = << >>

\* CASPAR_SCOPE_EXIT after an exception: packet_buffer.push(nullptr);
\* packet_buffer.abort();
ScopeExit_Push ==
    /\ frame_pc = "exit_push"
    /\ CanPush(packet_buffer)
    /\ packet_buffer' = Append(packet_buffer, NullPkt)
    /\ frame_pc' = "exit_join"
    /\ IF AbortedPop(packet_pc, packet_buffer')
       THEN /\ packet_pc' = "catch"
            /\ hist' = [hist EXCEPT !.enqueued = Append(@, NullPkt),
                                    !.exc3 = TRUE, !.thrown3 = "pop"]
       ELSE /\ hist' = [hist EXCEPT !.enqueued = Append(@, NullPkt)]
            /\ UNCHANGED packet_pc
    /\ UNCHANGED << exceptWriter, consumerVars, frame_buffer_, joinable, frame, strm,
                    stream, pkt, dtor_pc >>

\* CASPAR_SCOPE_EXIT: packet_thread.join(), then the catch block of the thread
ScopeExit_Join ==
    /\ frame_pc = "exit_join"
    /\ Joined(packet_pc)
    /\ frame_pc' = "done"
    /\ UNCHANGED << exceptWriter, consumerVars, frame_buffer_, joinable, frame, strm,
                    stream, pkt, packet_buffer, packet_pc, dtor_pc, hist >>

(* -------------------- stage 3: the packet-writer thread --------------- *)

\* mutant: a failed write is skipped, the loop of packet_thread goes on
WriteFailureSkipped(h) ==
    [pc |-> "pop", hist |-> [h EXCEPT !.thrown3 = "av_interleaved_write_frame"]]

\* FF(av_interleaved_write_frame(oc, pkt.get())) throws: the loop and the
\* try block of packet_thread are left for the catch block
WriteFailure(h) ==
    [pc |-> "catch",
     hist |-> [h EXCEPT !.exc3 = TRUE, !.thrown3 = "av_interleaved_write_frame"]]

\* what stage 3 does with a popped item: a packet is written with
\* FF(av_interleaved_write_frame(oc, pkt.get())) and the loop goes on; on the
\* sentinel the loop ends, FF(av_write_trailer(oc)) and, unless AVFMT_NOFILE,
\* FF(avio_closep(&oc->pb)) follow. A failing call throws into the catch block.
\* Gives the next position of packet_thread and what it has observably done.
PacketThreadStep(p, h, ok, trailer, close) ==
    IF IsPkt(p)
    THEN IF ok
         THEN [pc |-> "pop", hist |-> [h EXCEPT !.written = Append(@, p)]]
         ELSE WriteFailure(h)
    ELSE IF ~trailer
    THEN [pc |-> "catch", hist |-> [h EXCEPT !.eofPopped = @ + 1, !.exc3 = TRUE,
                                            !.thrown3 = "av_write_trailer"]]
    ELSE IF oformat.nofile
    THEN [pc |-> "done", hist |-> [h EXCEPT !.eofPopped = @ + 1, !.trailers = @ + 1]]
    ELSE IF close
    THEN [pc |-> "done", hist |-> [h EXCEPT !.eofPopped = @ + 1, !.trailers = @ + 1,
                                            !.ioClosed = TRUE]]
    ELSE [pc |-> "catch", hist |-> [h EXCEPT !.eofPopped = @ + 1, !.trailers = @ + 1,
                                             !.exc3 = TRUE, !.thrown3 = "avio_closep"]]

\* whether av_interleaved_write_frame succeeds: the container decides, and
\* takes at least the first h.writeOk packets
WriteResults(h) == IF Len(h.written) < h.writeOk THEN {TRUE} ELSE BOOLEAN

\* tbb::concurrent_bounded_queue::pop on the full queue makes room for the
\* push of stage 2 that waits for space
Released(h) ==
    IF frame_pc \in {"cb", "push_eof", "exit_push"} /\ ~CanPush(packet_buffer)
    THEN [h EXCEPT !.released = @ + 1] ELSE h

\* packet_thread: packet_buffer.pop(pkt) and what follows up to the next pop
PacketThread_Pop ==
    /\ packet_pc = "pop"
    /\ packet_buffer # << >>
    /\ packet_buffer' = Tail(packet_buffer)
    /\ \E ok \in WriteResults(hist), trailer \in BOOLEAN, close \in BOOLEAN :
          LET r == PacketThreadStep(Head(packet_buffer), Released(hist), ok,
                                    trailer, close)
          IN  /\ packet_pc' = r.pc
              /\ hist' = r.hist
    /\ UNCHANGED << exceptWriter, consumerVars, frame_buffer_, joinable, stage2Vars, dtor_pc >>

\* tbb::concurrent_bounded_queue::abort as seen by stage 2: a push that waits
\* on the full queue throws tbb::user_abort
AbortedPush(pc, q) == pc \in {"cb", "push_eof"} /\ ~CanPush(q)

\* tbb::concurrent_bounded_queue::abort as seen by the scope exit of stage 2:
\* its push(nullptr) that waits on the full queue throws tbb::user_abort out
\* of the exit function, so that abort() and join() of line 554-555 are not
\* reached
AbortedExit(pc, q) == pc = "exit_push" /\ ~CanPush(q)

\* catch (...) of packet_thread: packet_buffer.abort(). A push of stage 2 that
\* is already waiting throws; one that has not yet begun to wait is not woken.
\* A waiting push of the scope exit throws while the exception that left the
\* loop is in flight and while packet_thread is joinable: whether the
\* exception leaves the destructor of the scope exit or is swallowed there,
\* std::terminate ends the process, with every thread of it.
PacketThread_Catch ==
    /\ packet_pc = "catch"
    /\ \E waiting \in BOOLEAN :
          IF waiting /\ AbortedExit(frame_pc, packet_buffer)
          THEN /\ frame_pc' = "terminated"
               /\ packet_pc' = "terminated"
               /\ dtor_pc' = "terminated"
               /\ hist' = [hist EXCEPT !.aborted = TRUE]
               /\ UNCHANGED << frame, strm, stream, pkt >>
          ELSE /\ packet_pc' = "done"
               /\ UNCHANGED dtor_pc
               /\ IF waiting /\ AbortedPush(frame_pc, packet_buffer)
                  THEN Stage2Continues(frame,
                           Outcome("throw", strm, stream, Trace(hist)),
                           [hist EXCEPT !.aborted = TRUE])
                  ELSE /\ hist' = [hist EXCEPT !.aborted = TRUE]
                       /\ UNCHANGED stage2Vars
    /\ UNCHANGED << exceptWriter, consumerVars, frame_buffer_, joinable, packet_buffer >>

(* --------------------------- specifications --------------------------- *)

Stage2 ==
    \/ FrameThread_Build
    \/ FrameThread_Pop
    \/ packet_cb
    \/ FrameThread_PushEof
    \/ FrameThread_Join
    \/ ScopeExit_Push
    \/ ScopeExit_Join

Stage3 ==
    \/ PacketThread_Pop
    \/ PacketThread_Catch

Next ==
    \/ Send
    \/ Initialize
    \/ Destroy
    \/ DestroyJoin
    \/ FrameThread_Build
    \/ FrameThread_Pop
    \/ packet_cb
    \/ FrameThread_PushEof
    \/ FrameThread_Join
    \/ ScopeExit_Push
    \/ ScopeExit_Join
    \/ PacketThread_Pop
    \/ PacketThread_Catch

Spec == Init /\ [][Next]_vars

\* the operating system schedules every thread that can run: the media
\* thread, the packet-writer thread and the destroying thread keep taking
\* steps while they can
FairSpec == Spec /\ WF_vars(Stage2) /\ WF_vars(Stage3) /\ WF_vars(DestroyJoin)

\* The callers of Spec call initialize once. A refused initialize call leaves
\* every field of the consumer and both threads as they are, so the program
\* states of ReinitSpec are those of Spec; ReinitSpec adds the callers that
\* call initialize again, at any moment.
ReinitNext == Next \/ Reinitialize
ReinitSpec == Init /\ [][ReinitNext]_vars

\* the video decoder on its own
DecoderNext ==
    \/ Construct
    \/ Decode

DecoderSpec == DecoderInit /\ [][DecoderNext]_vars

\* a codec context of every pixel format and every height, the narrowest
\* picture: the tasks of make_write_frame are per plane and per row
WriteFrameInit ==
    /\ WriterInit
    /\ ~realtime_ /\ oformat.video /\ oformat.audio
    /\ impl_ = NoDecoder
    /\ input_ = << >>
    /\ write_frame = NoWrite
    /\ \E c \in CodecContexts :
          /\ c.width = 1
          /\ dhist = [NoDHist EXCEPT !.codec = c]
    /\ TrackIdle
    /\ OptionsIdle

WriteFrameNext ==
    \/ Construct
    \/ CreateFrame
    \/ CopyRow
    \/ CommitPlane
    \/ ParallelForReturns
    \/ SwsScale
    \/ CommitFrame
    \/ ReturnWrite

WriteFrameSpec == WriteFrameInit /\ [][WriteFrameNext]_vars

\* n packets p
Run(p, n) == [i \in 1..n |-> p]

\* the queues of the input: a run of packets that give no frame, shorter
\* than, as long as or longer than the loop of receive, and up to three more
\* packets of any kind
InputQueues ==
    { Run(p, n) \o tail :
        p \in {"none", "eof"},
        n \in {0, 1, MaxReceive - 1, MaxReceive, MaxReceive + 1},
        tail \in UNION { [1..k -> Packets] : k \in 0..3 } }

\* a codec context of one picture size for each path of make_write_frame, and
\* an input with packets queued; the writer is left alone
ReceiveInit ==
    /\ WriterInit
    /\ ~realtime_ /\ oformat.video /\ oformat.audio
    /\ impl_ = NoDecoder
    /\ input_ \in InputQueues
    /\ write_frame = NoWrite
    /\ \E c \in CodecContexts :
          /\ c.pix_fmt \in {"BGRA", "RGB24"} /\ c.width = 1 /\ c.height = 1
          /\ dhist = [NoDHist EXCEPT !.codec = c, !.queued = input_]
    /\ TrackIdle
    /\ OptionsIdle

ReceiveNext ==
    \/ Construct
    \/ Receive

ReceiveSpec == ReceiveInit /\ [][ReceiveNext]_vars

\* a Stream on its own, after its construction; the writer and the decoder are
\* left alone
TrackInit ==
    /\ WriterInit
    /\ ~realtime_ /\ oformat.video /\ oformat.audio
    /\ impl_ = NoDecoder
    /\ input_ = << >>
    /\ write_frame = NoWrite
    /\ dhist = NoDHist
    /\ track = NewTrack
    /\ thist = NoTHist
    /\ OptionsIdle

TrackNext ==
    \/ StreamSend
    \/ ReceivePacket
    \/ GetFrame

TrackSpec == TrackInit /\ [][TrackNext]_vars

\* the thread that called send keeps running its drain loop
FairTrackSpec == TrackSpec /\ WF_vars(ReceivePacket) /\ WF_vars(GetFrame)

\* the try block of frame_thread_ with the options the arguments gave, from
\* the first Stream to the log of the unused options; the queues, the threads
\* and the decoder are left alone
OptionsInit ==
    /\ WriterInit
    /\ ~realtime_
    /\ impl_ = NoDecoder
    /\ input_ = << >>
    /\ write_frame = NoWrite
    /\ dhist = NoDHist
    /\ TrackIdle
    /\ options \in OptionMaps
    /\ ohist = [NoOHist EXCEPT !.pc = "v", !.args = options]

OptionsNext ==
    \/ ConstructVideo
    \/ ConstructAudio
    \/ OpenIo
    \/ WriteHeader

OptionsSpec == OptionsInit /\ [][OptionsNext]_vars

(* ------------------- a writer that has run for long ------------------ *)

\* frames n..m as the callers sent them, and the packets n..m of the video
\* stream
FramesFrom(n, m) == [k \in 1..(m - n + 1) |-> Frame(n + k - 1)]
PacketsFrom(n, m) ==
    [k \in 1..(m - n + 1) |-> [id |-> n + k - 1, idx |-> 0, src |-> "v"]]

\* packets waiting on the packet queue of the long-running writer
PacketBacklogs == { PacketCapacity - 2, PacketCapacity - 1 }

\* A writer of a video-only container that has been running: stage 3 popped
\* the first packet, av_interleaved_write_frame failed on it and the catch
\* block called packet_buffer.abort() while stage 2 was not waiting in a push;
\* stage 2 has since filtered and encoded further frames, one packet each,
\* which wait on the packet queue; the callers have sent frames ahead of
\* stage 2, which wait on the frame queue, and will send MaxSends more.
LongRunInit ==
    /\ realtime_ \in BOOLEAN
    /\ oformat = [video |-> TRUE, audio |-> FALSE, nofile |-> TRUE,
                  globalheader |-> TRUE]
    /\ joinable = TRUE
    /\ format_desc_ = "PAL"
    /\ channel_index_ = 1
    /\ frame_pc = "pop"
    /\ strm = "none"
    /\ pkt = NoPkt
    /\ packet_pc = "done"
    /\ dtor_pc = "alive"
    /\ impl_ = NoDecoder
    /\ input_ = << >>
    /\ write_frame = NoWrite
    /\ dhist = NoDHist
    /\ TrackIdle
    /\ OptionsIdle
    /\ \E backlog \in PacketBacklogs :
          LET done == backlog + 1
              sent == done + Capacity(realtime_) - 1
          IN  /\ frame_buffer_ = FramesFrom(done + 1, sent)
              /\ frame = Frame(done)
              /\ stream = [s \in Streams |->
                              IF s = "v" THEN [NewStream EXCEPT !.pts = done]
                              ELSE NewStream]
              /\ packet_buffer = PacketsFrom(2, done)
              /\ hist = [NoHist EXCEPT
                     !.sendLimit = sent + MaxSends,
                     !.sendCalls = sent,
                     !.lastSend = Frame(sent),
                     !.lastRet = TRUE,
                     !.accepted = FramesFrom(1, sent),
                     !.lastInit = "returned",
                     !.spawnInit = "returned",
                     !.started = 1,
                     !.header = TRUE,
                     !.ctorEvents = [s \in Streams |->
                                        IF s = "v"
                                        THEN StreamCtorEvents("ok", TRUE)
                                        ELSE << >>],
                     !.processed = FramesFrom(1, done),
                     !.stamped = [s \in Streams |->
                                     IF s = "v"
                                     THEN [k \in 1..done |->
                                              [pts |-> k - 1, inc |-> 1, id |-> k]]
                                     ELSE << >>],
                     !.enqueued = PacketsFrom(1, done),
                     !.produced = done,
                     !.exc3 = TRUE,
                     !.thrown3 = "av_interleaved_write_frame",
                     !.aborted = TRUE]

\* the steps the long-running writer can still take: its packet thread has
\* ended and initialize has been called
LongRunNext ==
    \/ Send
    \/ Destroy
    \/ DestroyJoin
    \/ FrameThread_Pop
    \/ packet_cb
    \/ FrameThread_PushEof
    \/ FrameThread_Join
    \/ ScopeExit_Push
    \/ ScopeExit_Join

LongRunSpec == LongRunInit /\ [][LongRunNext]_vars

(* ----------------- a writer whose container is slow ------------------- *)

\* A writer of a video-only container whose packet thread is behind: stage 3
\* has written the first packet and is about to pop the next, or has popped
\* it, failed to write it and stands in its catch block before
\* packet_buffer.abort(); stage 2 has filtered and encoded further frames, one
\* packet each, which wait on the packet queue and leave room for one more;
\* the callers will send further frames, and the container takes every packet
\* from now on.
BacklogInit ==
    /\ realtime_ = TRUE
    /\ oformat = [video |-> TRUE, audio |-> FALSE, nofile |-> TRUE,
                  globalheader |-> TRUE]
    /\ joinable = TRUE
    /\ format_desc_ = "PAL"
    /\ channel_index_ = 1
    /\ frame_pc = "pop"
    /\ strm = "none"
    /\ pkt = NoPkt
    /\ dtor_pc = "alive"
    /\ impl_ = NoDecoder
    /\ input_ = << >>
    /\ write_frame = NoWrite
    /\ dhist = NoDHist
    /\ TrackIdle
    /\ OptionsIdle
    /\ \E failed \in BOOLEAN :
          LET first == IF failed THEN 3 ELSE 2
              done == (PacketCapacity - 1) + first - 1
          IN  /\ packet_pc = IF failed THEN "catch" ELSE "pop"
              /\ frame_buffer_ = << >>
              /\ frame = Frame(done)
              /\ stream = [s \in Streams |->
                              IF s = "v" THEN [NewStream EXCEPT !.pts = done]
                              ELSE NewStream]
              /\ packet_buffer = PacketsFrom(first, done)
              /\ hist = [NoHist EXCEPT
                     !.sendLimit = done + MaxSends - 1,
                     !.writeOk = done + MaxSends,
                     !.sendCalls = done,
                     !.lastSend = Frame(done),
                     !.lastRet = TRUE,
                     !.accepted = FramesFrom(1, done),
                     !.lastInit = "returned",
                     !.spawnInit = "returned",
                     !.started = 1,
                     !.header = TRUE,
                     !.ctorEvents = [s \in Streams |->
                                        IF s = "v"
                                        THEN StreamCtorEvents("ok", TRUE)
                                        ELSE << >>],
                     !.processed = FramesFrom(1, done),
                     !.stamped = [s \in Streams |->
                                     IF s = "v"
                                     THEN [k \in 1..done |->
                                              [pts |-> k - 1, inc |-> 1, id |-> k]]
                                     ELSE << >>],
                     !.enqueued = PacketsFrom(1, done),
                     !.produced = done,
                     !.written = PacketsFrom(1, 1),
                     !.exc3 = failed,
                     !.thrown3 = IF failed THEN "av_interleaved_write_frame"
                                 ELSE "none"]

\* the steps the writer can still take: initialize has been called and the
\* pipeline has been built
BacklogNext ==
    \/ Send
    \/ Destroy
    \/ DestroyJoin
    \/ FrameThread_Pop
    \/ packet_cb
    \/ FrameThread_PushEof
    \/ FrameThread_Join
    \/ ScopeExit_Push
    \/ ScopeExit_Join
    \/ PacketThread_Pop
    \/ PacketThread_Catch

BacklogSpec == BacklogInit /\ [][BacklogNext]_vars

(* ------------------------------ claims -------------------------------- *)

IsPrefix(a, b) == Len(a) <= Len(b) /\ \A i \in 1..Len(a) : a[i] = b[i]
RECURSIVE SumInc(_, _)
SumInc(q, k) == IF k = 0 THEN 0 ELSE q[k].inc + SumInc(q, k - 1)

\* C1: in every state of the writer a send call can be taken (it does not
\* wait), returns a ready future holding true, and either finds the frame
\* queue at capacity, leaves it unchanged and records exactly one
\* "dropped-frame" signal, or appends the frame at the tail and records none.
C1_SendNeverBlocks ==
    /\ [](dtor_pc = "alive" /\ hist.sendCalls < MaxSends => ENABLED Send)
    /\ [][ hist'.sendCalls = hist.sendCalls + 1 =>
             /\ hist'.lastRet = TRUE
             /\ IF Len(frame_buffer_) >= Capacity(realtime_)
                THEN /\ frame_buffer_' = frame_buffer_
                     /\ hist'.dropped = hist.dropped + 1
                ELSE /\ frame_buffer_' = Append(frame_buffer_, hist'.lastSend)
                     /\ hist'.dropped = hist.dropped ]_vars

\* C1 witness: the third send was dropped on a full queue that still holds the
\* second frame, after stage 2 had ended by an exception
C1_Witness ==
    /\ frame_pc = "done" /\ hist.exc2
    /\ hist.lastSend = Frame(3) /\ hist.lastRet
    /\ hist.dropped = 1
    /\ frame_buffer_ = << Frame(2) >>

C3_NoReinitialize ==
    [][ joinable =>
          /\ hist'.started = hist.started
          /\ format_desc_' = format_desc_
          /\ channel_index_' = channel_index_
          /\ (hist'.lastInit # hist.lastInit =>
                 /\ hist'.lastInit = "invalid_operation"
                 /\ frame_pc' = frame_pc) ]_vars

\* C3 witness: a second initialize call was refused after the media thread of
\* the first had exited by a failure
C3_Witness ==
    /\ hist.lastInit = "invalid_operation"
    /\ joinable /\ frame_pc = "done" /\ hist.exc2
    /\ hist.started = 1
    /\ format_desc_ = "PAL" /\ channel_index_ = 1

EofAccepted == \E i \in 1..Len(hist.accepted) : hist.accepted[i].eof
EofProcessed == \E i \in 1..Len(hist.processed) : hist.processed[i].eof
StageFailed == hist.buildError # "none" \/ hist.exc2 \/ hist.exc3

\* C4: when an EOF sentinel frame has been accepted by an initialized writer
\* and neither the construction of the pipeline nor a stage fails, stage 3
\* pops exactly one EOF sentinel packet and writes the trailer exactly once:
\* never more than once, eventually once, and once by the time stage 2 ends.
C4_EofFinalizesOnce ==
    /\ [](hist.eofPopped <= 1 /\ hist.trailers <= 1)
    /\ [](frame_pc = "done" /\ EofProcessed /\ ~StageFailed
             => hist.eofPopped = 1 /\ hist.trailers = 1)
    /\ (EofAccepted /\ joinable) ~> (hist.trailers = 1 \/ StageFailed)

\* C4 witness: the sentinel was the first item sent (zero frames before it),
\* and the container was finalized without any failure
C4_Witness ==
    /\ hist.accepted # << >> /\ hist.accepted[1].eof
    /\ hist.processed = << hist.accepted[1] >>
    /\ ~StageFailed /\ frame_pc = "done"
    /\ hist.eofPopped = 1 /\ hist.trailers = 1 /\ hist.written = << >>

\* C5 as stated: destruction always terminates, whatever the occupancy of the
\* frame queue: while the destructor waits in join, stage 2 is never left
\* waiting on an empty frame queue that no one will fill.
C5_DestroyTerminates ==
    ~(dtor_pc = "join" /\ frame_pc = "pop" /\ frame_buffer_ = << >>)

\* C6 as stated: at most one EOF sentinel is ever enqueued on the frame queue
\* and nothing is enqueued after it.
C6_OneEofOnFrameQueue ==
    \A i \in 1..Len(hist.accepted) :
        hist.accepted[i].eof => i = Len(hist.accepted)

\* C7: in every execution at most one EOF sentinel packet is enqueued on the
\* packet queue and no packet is enqueued after it.
C7_OneEofOnPacketQueue ==
    \A i \in 1..Len(hist.enqueued) :
        ~IsPkt(hist.enqueued[i]) => i = Len(hist.enqueued)

\* C7 witness: stage 3 failed on a write, stage 2 then left its loop by an
\* exception, and the scope exit enqueued the sentinel after a packet
C7_Witness ==
    /\ hist.exc2 /\ hist.exc3 /\ frame_pc = "done"
    /\ Len(hist.enqueued) >= 2
    /\ hist.enqueued[Len(hist.enqueued)] = NullPkt

\* C8: stage 2 processes the accepted frames in the order of their
\* acceptance, and the packets written to the container are at every moment
\* a prefix of the packets stage 2 enqueued.
C8_OrderPreserved ==
    /\ IsPrefix(hist.processed, hist.accepted)
    /\ IsPrefix(hist.written, SelectSeq(hist.enqueued, IsPkt))
    /\ \A i, j \in 1..Len(hist.enqueued) :
          (i < j /\ IsPkt(hist.enqueued[j])) => hist.enqueued[i].id < hist.enqueued[j].id

\* C8 witness: two frames processed and two packets written
C8_Witness ==
    /\ Len(hist.processed) >= 2 /\ IsFrame(hist.processed[2])
    /\ Len(hist.written) >= 2

\* the frames stage 2 has passed to the streams, in order
SentFrames == SelectSeq(hist.processed, IsFrame)
RECURSIVE SumSamples(_, _)
SumSamples(q, k) == IF k = 0 THEN 0 ELSE q[k].nb + SumSamples(q, k - 1)

\* C9: the PTS stamped on the frame of the N-th non-EOF send of a Stream is
\* the sum of the increments of the N-1 sends before it: N-1 on the video
\* stream, the sum of the earlier sample counts on the audio stream; the
\* sequence is non-decreasing and is determined by the frames that reached the
\* stream alone (not by dropped frames, not by the frames' own metadata).
C9_PtsIsRunningSum ==
    \A s \in Streams :
        LET q == hist.stamped[s] IN
        /\ Len(q) <= Len(SentFrames)
        /\ \A k \in 1..Len(q) :
              /\ q[k].id = SentFrames[k].id
              /\ q[k].pts = SumInc(q, k - 1)
              /\ q[k].pts = IF s = "v" THEN k - 1 ELSE SumSamples(SentFrames, k - 1)
              /\ k > 1 => q[k - 1].pts <= q[k].pts

\* C9 witness: both streams stamped two frames although a frame sent in
\* between was dropped at the frame queue
C9_Witness ==
    /\ Len(hist.stamped["v"]) = 2 /\ Len(hist.stamped["a"]) = 2
    /\ hist.dropped = 1
    /\ hist.stamped["a"][2].id = 3 /\ hist.stamped["a"][2].pts = 1

\* C10 as stated: a configuration failure while the pipeline is built makes
\* the initialize call that requested the pipeline report the failure.
C10_BuildFailureSurfaces ==
    hist.buildError # "none" => hist.spawnInit # "returned"

\* stage 2 stands in a push on the full packet queue after stage 3 has ended:
\* no pop will make room and packet_buffer.abort() has already been called
BlockedOnDeadPeer(pcs) ==
    /\ packet_pc = "done"
    /\ frame_pc \in pcs
    /\ ~CanPush(packet_buffer)

\* C11 as stated: after stage 3 has ended by an exception, stage 2 is never
\* left blocked forever in packet_cb or in the push of the EOF sentinel packet,
\* also when the packet queue has filled to its capacity after stage 3 died.
C11_Stage2NeverBlockedOnDeadStage3 ==
    ~(hist.exc3 /\ ~hist.exc2 /\ BlockedOnDeadPeer({"cb", "push_eof"}))

\* C12 as stated: after an exception while a frame is filtered or encoded,
\* the thread function of stage 2 is never left blocked forever: its scope
\* exit gets past the push of the sentinel packet and the join.
C12_Stage2ReturnsAfterItsException ==
    ~(hist.exc2 /\ BlockedOnDeadPeer({"exit_push"}))

\* C13: every packet handed to the packet callback, and so every packet
\* written, carries the index of the container track of the Stream that
\* produced it (the two tracks of a container have different indexes); with
\* one video track, 3 frames and then EOF, at most 3 packets are written, all
\* with the video track's index, and the container is finalized.
C13_PacketsCarryTrackIndex ==
    /\ \A i \in 1..Len(hist.enqueued) :
          LET p == hist.enqueued[i] IN
          IsPkt(p) =>
              /\ p.src \in Streams
              /\ p.idx = IF p.src = "v" \/ ~oformat.video THEN 0 ELSE 1
    /\ \A i \in 1..Len(hist.written) :
          \E j \in 1..Len(hist.enqueued) : hist.written[i] = hist.enqueued[j]
    /\ (/\ oformat.video /\ ~oformat.audio
        /\ Len(SentFrames) = 3 /\ EofProcessed
        /\ ~StageFailed /\ frame_pc = "done")
          => /\ Len(hist.written) <= 3
             /\ \A i \in 1..Len(hist.written) : hist.written[i].idx = 0
             /\ hist.trailers = 1

\* C13 witness: one video track, three frames and the sentinel of the
\* destructor, three packets written and the container finalized
C13_Witness ==
    /\ oformat.video /\ ~oformat.audio
    /\ hist.processed = << Frame(1), Frame(2), Frame(3), DtorEof >>
    /\ ~StageFailed /\ frame_pc = "done"
    /\ Len(hist.written) = 3 /\ hist.trailers = 1

\* the native pixel formats get_pixel_format has a case for
SupportedFormats ==
    { "GRAY8", "BGRA", "ARGB", "RGBA", "ABGR", "YUV444P", "YUV422P",
      "YUV420P", "YUV411P", "YUV410P", "YUVA420P" }

\* frames produced by the packets ps since the most recent EOF packet
RECURSIVE SinceEof(_)
SinceEof(ps) ==
    IF ps = << >> THEN 0
    ELSE LET last == ps[Len(ps)]
             before == SubSeq(ps, 1, Len(ps) - 1)
         IN  IF last = "eof" THEN 0
             ELSE IF last = "frame" THEN SinceEof(before) + 1
             ELSE SinceEof(before)

\* C14: the k-th frame a decoder produces since its construction or since the
\* most recent EOF packet carries sequence number k-1; a packet that yields no
\* frame does not advance the counter; an EOF packet yields no frame and
\* resets the next number to 0; N packets that each yield a frame produce
\* the numbers 0..N-1 in order.
C14_SequenceNumbers ==
    /\ [](impl_.state = "constructed" =>
             /\ impl_.frame_number_ = SinceEof(dhist.packets)
             /\ ((\A i \in 1..Len(dhist.packets) : dhist.packets[i] = "frame")
                    => dhist.numbers = [k \in 1..Len(dhist.packets) |-> k - 1]))
    /\ [][ dhist'.decodes = dhist.decodes + 1 =>
             LET video_packet == dhist'.packets[Len(dhist'.packets)] IN
             /\ video_packet = "frame" =>
                    /\ Len(dhist'.result) = 1
                    /\ dhist'.result[1].number = SinceEof(dhist.packets)
                    /\ dhist'.numbers = Append(dhist.numbers, SinceEof(dhist.packets))
                    /\ impl_'.frame_number_ = impl_.frame_number_ + 1
             /\ video_packet # "frame" =>
                    /\ dhist'.result = << >>
                    /\ dhist'.numbers = dhist.numbers
             /\ video_packet \in {"none", "error"} =>
                    impl_'.frame_number_ = impl_.frame_number_
             /\ video_packet = "eof" => impl_'.frame_number_ = 0 ]_vars

\* C14 witness: a frame, the EOF packet, and a frame that is numbered 0 again
C14_Witness ==
    /\ dhist.packets = << "frame", "eof", "frame" >>
    /\ dhist.numbers = << 0, 0 >>
    /\ impl_.frame_number_ = 1

\* C15: for a native format without a case in the resolver, resolve returns
\* kind invalid with no planes and the constructed decoder holds the
\* descriptor of the BGRA fallback and a conversion context; for a supported
\* one it holds resolve(native) and no conversion context; the context is
\* there if and only if the native format was unsupported; construction
\* fails only when the context could not be created.
C15_FallbackDescriptor ==
    impl_.state # "none" =>
        LET c == dhist.codec
            supported == c.pix_fmt \in SupportedFormats
        IN  /\ supported =>
                  /\ impl_.state = "constructed"
                  /\ dhist.resolved.pix_fmt # "invalid"
                  /\ impl_.desc_ = dhist.resolved
            /\ ~supported =>
                  /\ dhist.resolved.pix_fmt = "invalid"
                  /\ dhist.resolved.planes = << >>
                  /\ impl_.desc_.pix_fmt = "bgra"
                  /\ impl_.desc_.planes = << plane(c.width, c.height, 4) >>
                  /\ impl_.state \in {"constructed", "operation_failed"}
            /\ impl_.state = "constructed" => (impl_.sws_context_ <=> ~supported)
            /\ impl_.state = "operation_failed" =>
                  (~supported /\ ~impl_.sws_context_ /\ dhist.error = "operation_failed")

\* C15 witness: a decoder constructed on an unsupported native format
C15_Witness ==
    /\ dhist.codec.pix_fmt = "NV12"
    /\ impl_.state = "constructed" /\ impl_.sws_context_
    /\ impl_.desc_.pix_fmt = "bgra"

\* C16: for a supported native format resolve returns 1 plane for gray and
\* for the packed 4-channel kinds, 3 planes for planar YCbCr and 4 for YCbCr
\* with alpha; the luma plane has the height of the frame and each chroma
\* plane (planes 1 and 2) is at most as high.
C16_PlaneTable ==
    (impl_.state = "constructed" /\ dhist.codec.pix_fmt \in SupportedFormats) =>
        LET c == dhist.codec
            d == dhist.resolved
        IN  /\ Len(d.planes) =
                  CASE c.pix_fmt \in {"GRAY8", "BGRA", "ARGB", "RGBA", "ABGR"} -> 1
                    [] c.pix_fmt = "YUVA420P" -> 4
                    [] OTHER -> 3
            /\ d.planes[1].height = c.height
            /\ Len(d.planes) >= 3 =>
                  /\ d.planes[2].height <= d.planes[1].height
                  /\ d.planes[3].height <= d.planes[1].height
                  /\ d.planes[2].height >= 1
            /\ Len(d.planes) = 4 => d.planes[4].height = c.height

\* C16 witness: YCbCr with alpha, whose chroma planes are half as high
C16_Witness ==
    /\ impl_.state = "constructed"
    /\ dhist.codec.pix_fmt = "YUVA420P" /\ dhist.codec.height = 2
    /\ Len(dhist.resolved.planes) = 4
    /\ dhist.resolved.planes[2].height = 1

\* the byte at offset off of a plane buffer, -1 beyond its end
ByteAt(buffer, off) == IF off \in DOMAIN buffer THEN buffer[off] ELSE -1

\* C17 as stated: on the direct path, for every plane n and every row y below
\* the plane's declared height, every byte x of the logical row is found in
\* the destination at offset y times the declared line size plus x and equals
\* the source byte at offset y times the source stride plus x.
C17_DirectCopyPreservesRows ==
    dhist.image.path = "direct" =>
        \A n \in 1..Len(impl_.desc_.planes) :
            LET pl == impl_.desc_.planes[n]
                row == AvLinesize(impl_.pix_fmt_, impl_.width_)[n - 1]
                stride == DecodedLinesize(impl_.pix_fmt_, impl_.width_, dhist.pad, n - 1)
            IN  \A y \in 0..(pl.height - 1), x \in 0..(row - 1) :
                    ByteAt(dhist.image.planes[n], y * pl.linesize + x)
                        = DecodedByte(impl_.pix_fmt_, impl_.width_, dhist.pad,
                                      n - 1, y * stride + x)

\* C18: the frame queue never holds more than its capacity, 1 for a writer
\* constructed with the realtime flag and 128 otherwise, and the packet queue
\* never holds more than 128 items, whatever the callers send and however
\* slow the later stages are.
C18_QueuesBounded ==
    /\ Len(frame_buffer_) <= IF realtime_ THEN 1 ELSE 128
    /\ Len(packet_buffer) <= 128
    /\ hist.dropped + Len(hist.accepted) >= hist.sendCalls

\* C18 witness: a file writer whose two queues are both at capacity and
\* that has dropped a frame
C18_Witness ==
    /\ ~realtime_
    /\ Len(frame_buffer_) = FileCapacity
    /\ Len(packet_buffer) = PacketCapacity
    /\ hist.dropped = 1

\* C19 as stated: in the construction of a Stream for a container format that
\* requires global headers, the global-header flag is set on the encoder
\* before the encoder is opened.
C19_FlagSetBeforeOpen ==
    \A s \in Streams :
        LET e == hist.ctorEvents[s] IN
        \A i \in 1..Len(e) :
            (oformat.globalheader /\ e[i] = "avcodec_open2") =>
                \E j \in 1..(i - 1) : e[j] = "AV_CODEC_FLAG_GLOBAL_HEADER"

\* the streams of the container, in the order of the loop
ExistingStreams ==
    (IF oformat.video THEN << "v" >> ELSE << >>)
    \o (IF oformat.audio THEN << "a" >> ELSE << >>)

\* C20: on the EOF sentinel frame stage 2 calls the EOF send once on each
\* existing stream, video then audio; when it enqueues the EOF sentinel
\* packet every stream has had its EOF send, holds nothing back and every
\* packet produced has been enqueued before; and once the sentinel frame has
\* been popped no further frame is popped.
C20_EofFrameHandling ==
    /\ [](IsPrefix(hist.eofSends, ExistingStreams))
    /\ [](frame_pc \in {"push_eof", "join"} => hist.eofSends = ExistingStreams)
    /\ [][ (hist'.enqueued = Append(hist.enqueued, NullPkt) /\ frame_pc = "push_eof") =>
             /\ hist.eofSends = ExistingStreams
             /\ \A i \in 1..Len(ExistingStreams) :
                    LET L == stream[ExistingStreams[i]]
                    IN  L.closed /\ L.encq = 0 /\ L.graphq = 0
             /\ Len(hist.enqueued) = hist.produced
             /\ hist.produced = Len(SentFrames) * Len(ExistingStreams)
             /\ frame_pc' = "join" ]_vars
    /\ [][ EofProcessed => hist'.processed = hist.processed ]_vars

\* C20 witness: a frame and then the sentinel were processed on a container
\* with both streams, the packets of both flushes and then the sentinel
\* packet were enqueued, and the frame sent after the sentinel is still queued
C20_Witness ==
    /\ oformat.video /\ oformat.audio
    /\ hist.processed = << Frame(1), EofFrame(2) >>
    /\ frame_buffer_ = << Frame(3) >>
    /\ hist.eofSends = << "v", "a" >>
    /\ Len(hist.enqueued) = 3 /\ hist.enqueued[3] = NullPkt
    /\ frame_pc = "done" /\ ~StageFailed

\* C21: once stage 2 has ended after packet_thread was started, by the EOF
\* handling or by an exception, stage 3 has ended as well: stage 2 is never
\* finished while stage 3 still runs, and nothing is written to the
\* container, finalized or closed after stage 2 has ended.
C21_Stage3EndsBeforeStage2 ==
    /\ [](frame_pc \in {"done", "terminated"} /\ packet_pc # "idle"
             => packet_pc \in {"done", "terminated"})
    /\ [][ (frame_pc \in {"done", "terminated"})
             => (hist'.written = hist.written /\ hist'.trailers = hist.trailers
                 /\ hist'.ioClosed = hist.ioClosed
                 /\ packet_buffer' = packet_buffer) ]_vars

\* stage 2 has ended after an exception, stage 3 had written packets
C21_Witness ==
    /\ frame_pc = "done"
    /\ hist.exc2
    /\ packet_pc = "done"
    /\ Len(hist.written) > 1

\* C22 as stated: a push of stage 2 on the full packet queue aborts the
\* pipeline, stage 2 does not wait for space in the queue. Whenever a push of
\* stage 2 has waited for space, got it and stage 2 is back at its loop, a
\* stage has failed.
C22_FullQueueAborts ==
    (hist.released > 0 /\ frame_pc = "pop") => (hist.exc2 \/ hist.exc3)

\* the step is a turn of the drain loop that stood at pc
TrackStep(pc) == track.pc = pc /\ << track, thist >>' # << track, thist >>

\* C23: the drain loop of Stream::send follows its protocol. A packet of the
\* encoder is handed to cb and the loop goes on; on EAGAIN of the encoder one
\* frame is asked of the sink; EAGAIN of the sink and AVERROR_EOF of the
\* encoder are the only ways the call returns; AVERROR_EOF of the sink sends
\* the null frame to the encoder and the loop goes on; a frame of the sink is
\* sent to the encoder and the loop goes on. No frame of the sink and no
\* packet of the encoder is dropped.
C23_DrainProtocol ==
    /\ [](thist.received = thist.packets)
    /\ [](thist.pulled = thist.fed)
    /\ [](track.pc = "get_frame" => thist.lastEnc = "EAGAIN")
    /\ [][ TrackStep("receive") =>
             /\ thist'.lastEnc = "ok" =>
                    (thist'.packets = thist.packets + 1 /\ track'.pc = "receive")
             /\ thist'.lastEnc = "EAGAIN" =>
                    (track'.pc = "get_frame" /\ thist'.packets = thist.packets)
             /\ thist'.lastEnc = "AVERROR_EOF" =>
                    (track'.pc = "idle" /\ thist'.ret = "enc_eof")
             /\ thist'.lastEnc = "error" => track'.pc = "thrown"
             /\ thist'.pulled = thist.pulled ]_vars
    /\ [][ TrackStep("get_frame") =>
             /\ thist'.lastSink = "ok" =>
                    /\ thist'.fed = thist.fed + 1
                    /\ track'.pc \in {"receive", "thrown"}
                    /\ track'.pc = "receive" => track'.encq = track.encq + 1
             /\ thist'.lastSink = "AVERROR_EOF" =>
                    /\ thist'.nulls = thist.nulls + 1
                    /\ track'.pc \in {"receive", "thrown"}
                    /\ track'.pc = "receive" => track'.draining
             /\ thist'.lastSink = "EAGAIN" =>
                    (track'.pc = "idle" /\ thist'.ret = "sink_again")
             /\ thist'.lastSink = "error" => track'.pc = "thrown"
             /\ thist'.received = thist.received ]_vars
    /\ [][ (track.pc # "idle" /\ track'.pc = "idle") =>
             \/ track.pc = "get_frame" /\ thist'.lastSink = "EAGAIN"
             \/ track.pc = "receive" /\ thist'.lastEnc = "AVERROR_EOF" ]_vars

\* C23 witness: calls with a frame have returned on EAGAIN of the sink, and
\* the call with the empty frame has sent the null frame, handed out the
\* packets the encoder held and returned on its AVERROR_EOF
C23_Witness ==
    /\ track.pc = "idle"
    /\ thist.eofRet = "enc_eof"
    /\ thist.lastSink = "AVERROR_EOF"
    /\ thist.packets >= 2
    /\ thist.pulled >= 2

\* C24: with a graph and an encoder that hold a bounded number of frames and
\* give one output per input, after K sends of a frame and the send of the
\* empty frame, none of which failed, K packets were handed to cb in all, the
\* null frame was sent to the encoder once, and the send of the empty frame
\* returned on AVERROR_EOF of the encoder with nothing left in the graph or
\* in the encoder.
C24_FlushCompleteness ==
    /\ [](thist.nulls <= 1)
    /\ []((thist.eof /\ track.pc = "idle") => thist.eofRet = "enc_eof")
    /\ [](thist.eofRet = "enc_eof" =>
             /\ thist.packets = thist.sends
             /\ thist.nulls = 1
             /\ track.draining
             /\ track.graphq = 0
             /\ track.encq = 0)

\* C24 witness: two or more frames were sent, none of the calls failed, and
\* the send of the empty frame has returned after AVERROR_EOF of the sink and
\* of the encoder
C24_Witness ==
    /\ thist.eofRet = "enc_eof"
    /\ thist.sends >= 2
    /\ thist.packets = thist.sends
    /\ thist.lastSink = "AVERROR_EOF"
    /\ ~thist.thrown

\* C25: every call of Stream::send ends: a drain loop that has been entered
\* returns or throws.
C25_SendTerminates ==
    (track.pc \in {"receive", "get_frame"}) ~> (track.pc \in {"idle", "thrown"})

\* C25 witness: a call that went through its loop more than once, asked the
\* sink after EAGAIN of the encoder and returned on EAGAIN of the sink
C25_Witness ==
    /\ track.pc = "idle"
    /\ thist.ret = "sink_again"
    /\ thist.lastEnc = "EAGAIN"
    /\ thist.pulled >= 1
    /\ thist.packets >= 1

\* C26 as stated: the construction of a Stream with suffix S leaves every
\* option whose key does not end in S in the shared map, with its key and its
\* value, whatever the map holds and whatever the encoder leaves unconsumed.
C26_ForeignOptionsUntouched ==
    \A s \in Streams :
        ohist.result[s] = "ok" =>
            \A k \in DOMAIN ohist.before[s] :
                ~ends_with(k, Suffix(s)) =>
                    /\ k \in DOMAIN ohist.after[s]
                    /\ ohist.after[s][k] = ohist.before[s][k]

\* the key under which the arguments give callee c its option k
OwnKey(c, k) == IF c \in Streams THEN k \o Suffix(c) ELSE k

\* C27 as stated: an option of a track that the encoder of the track does not
\* recognize is passed to no other callee under any key or value. Every
\* entry of a dictionary passed to an encoder, to avio_open2 or to
\* avformat_write_header is an option the arguments gave to that callee, with
\* its value.
C27_UnusedTrackOptionStaysPrivate ==
    \A c \in ohist.called :
        \A k \in DOMAIN ohist.passed[c] :
            /\ OwnKey(c, k) \in DOMAIN ohist.args
            /\ ohist.passed[c][k] = ohist.args[OwnKey(c, k)]

\* the configuration errors of the filter graph checks
ConfigErrors ==
    { "invalid_filter_graph_input_count", "invalid_filter_graph_output_count",
      "invalid_filter_output_media_type" }

\* C28: with an encoder found and a filter spec parsed, Stream::Stream fails
\* with a configuration error whenever the graph has not exactly one open
\* input, not exactly one open output, or an output pad of another media
\* type than the encoder's; a "codec" option that names no encoder fails with
\* the encoder not found, whatever the default encoder of the container is.
\* In each case avformat_new_stream and avcodec_open2 are not called.
C28_BadGraphFailsConstruction ==
    /\ \A s \in Streams :
          ohist.pc = s =>
            LET p == Partition(Suffix(s), options)
            IN  \A env \in StreamEnvs :
                   LET r == Stream(Suffix(s), p, env)
                   IN  /\ ( /\ CodecLookup(p.lookup, env.default, env.byname)
                            /\ env.parse
                            /\ (env.inputs # 1 \/ env.outputs # 1 \/ ~env.pad) )
                          => (r.result \in ConfigErrors /\ r.calls = << >>
                              /\ ~r.opened)
                       /\ (p.named /\ ~env.byname)
                          => (r.result = "encoder_not_found" /\ r.calls = << >>
                              /\ ~r.opened)
    /\ \A s \in Streams :
          ohist.result[s] \in ConfigErrors \cup {"encoder_not_found"} =>
              /\ ohist.calls[s] = << >>
              /\ s \notin ohist.called
              /\ ohist.pc = "failed"

\* C28 witness: the video Stream was constructed, and the construction of the
\* audio Stream failed on the open outputs of its filter graph
C28_Witness ==
    /\ ohist.result["v"] = "ok"
    /\ ohist.calls["v"] # << >>
    /\ ohist.result["a"] = "invalid_filter_graph_output_count"
    /\ ohist.calls["a"] = << >>
    /\ ohist.pc = "failed"

\* the step is a call of receive
ReceiveStep == dhist'.receives = dhist.receives + 1

\* one of the first n packets of the queue q is a p
Among(q, n, p) == \E i \in 1..n : q[i] = p

\* C29: a call of receive pops at most 32 packets from the front of the
\* input and returns at most one frame; a frame comes from the last packet
\* popped, so nothing is popped after it. Packets that give no frame count
\* toward the 32: without a frame or a failure the call pops 32 packets or
\* the whole input, whichever is less. An EOF packet does not stop the loop
\* and resets the sequence counter, so a frame after it has number 0. On an
\* input without packets the call pops nothing and returns empty.
C29_ReceiveBounded ==
    [][ ReceiveStep =>
        LET n == dhist'.popped
        IN  /\ n <= MaxReceive /\ n <= Len(input_)
            /\ input_' = SubSeq(input_, n + 1, Len(input_))
            /\ Len(dhist'.result) <= 1
            /\ \A i \in 1..n : input_[i] = "frame" => i = n
            /\ dhist'.result # << >> <=> (n > 0 /\ input_[n] = "frame")
            /\ (~Among(input_, n, "frame") /\ ~Among(input_, n, "error"))
                   => (n = MaxReceive \/ n = Len(input_))
            /\ Among(input_, n, "eof")
                   => /\ dhist'.result # << >> => dhist'.result[1].number = 0
                      /\ impl_'.frame_number_
                            = (IF dhist'.result # << >> THEN 1 ELSE 0)
            /\ input_ = << >>
                   => (n = 0 /\ dhist'.result = << >> /\ dhist'.error = "none") ]_vars

\* a call has popped 32 packets, EOF packets and then one that gave a frame
C29_Witness ==
    /\ dhist.receives > 0
    /\ dhist.popped = MaxReceive
    /\ dhist.packets[1] = "eof"
    /\ dhist.result # << >>
    /\ dhist.result[1].number = 0

\* C30: when avcodec_decode_video2 gives a negative result for a packet,
\* receive ends with the invalid_operation of decode: that packet is the
\* last one popped, the call returns no frame, the failing packet leaves
\* the sequence counter as it was, and the packet is gone from the input. No
\* packet is ever decoded twice: the packets decoded so far and the packets
\* still queued are the packets the input was given.
C30_DecodeFailurePropagates ==
    /\ [](dhist.receives > 0 => dhist.packets \o input_ = dhist.queued)
    /\ [][ (ReceiveStep /\ Among(input_, dhist'.popped, "error")) =>
            LET n == dhist'.popped
            IN  /\ input_[n] = "error"
                /\ ~Among(input_, n - 1, "error")
                /\ dhist'.error = "invalid_operation"
                /\ dhist'.result = << >>
                /\ dhist'.numbers = dhist.numbers
                /\ impl_'.frame_number_
                      = (IF Among(input_, n - 1, "eof") THEN 0
                         ELSE impl_.frame_number_)
                /\ input_' = SubSeq(input_, n + 1, Len(input_)) ]_vars

\* a call has failed after an earlier call had counted a frame, and a packet
\* is still queued behind the failing one
C30_Witness ==
    /\ dhist.receives > 1
    /\ dhist.error = "invalid_operation"
    /\ impl_.frame_number_ = 1
    /\ input_ # << >>

\* the number of commits of plane n
CommitsOf(n) ==
    Cardinality({ i \in 1..Len(write_frame.commits) : write_frame.commits[i] = n })

\* C31: in make_write_frame without a conversion context, whatever the order
\* of the plane and row tasks, plane n is committed at most once and only
\* when every row of plane n has been copied; the commit of a plane whose
\* rows are copied waits for no other plane; and make_write_frame is about
\* to return only when every plane has been committed exactly once. With a
\* conversion context there is no commit before sws_scale and exactly one
\* commit, of the whole frame, when make_write_frame is about to return.
C31_CommitsAfterCopy ==
    /\ [](\A n \in PlaneNumbers :
            /\ CommitsOf(n) <= 1
            /\ (write_frame.pc = "parallel_for" /\ ~Committed(n)
                    /\ write_frame.rows[n + 1] = RowsOf(n))
                  => ENABLED Commit(n))
    /\ [](write_frame.pc \in {"return", "returned"} =>
            IF impl_.sws_context_
            THEN /\ write_frame.scaled
                 /\ write_frame.whole = 1 /\ write_frame.commits = << >>
            ELSE /\ write_frame.whole = 0
                 /\ Len(write_frame.commits) = Len(impl_.desc_.planes)
                 /\ \A n \in PlaneNumbers : CommitsOf(n) = 1)
    /\ [](write_frame.pc \in {"sws_scale", "commit"}
            => (write_frame.whole = 0 /\ write_frame.commits = << >>))
    /\ [][ /\ (write_frame'.whole > write_frame.whole) => write_frame.scaled
           /\ (write_frame.pc = "parallel_for") =>
                 (\A n \in PlaneNumbers :
                    (CommitsOf(n)' > CommitsOf(n))
                        => (write_frame.rows[n + 1] = RowsOf(n))) ]_vars

\* make_write_frame has returned a frame of four planes, two rows in the
\* luma plane, whose last plane was committed first
C31_Witness ==
    /\ write_frame.pc = "returned"
    /\ Len(write_frame.commits) = 4
    /\ write_frame.commits[1] = 3
    /\ write_frame.commits[4] = 0
    /\ Cardinality(write_frame.rows[1]) > 1

\* the packets of the sequence q that come before its first sentinel
RECURSIVE BeforeSentinel(_)
BeforeSentinel(q) ==
    IF q = << >> \/ ~IsPkt(Head(q)) THEN << >>
    ELSE << Head(q) >> \o BeforeSentinel(Tail(q))

\* C32: the container is written in the order header, packets, trailer. A
\* packet is written, and the trailer is written, only when
\* avformat_write_header has succeeded; the trailer is written at most once,
\* and when it has been written the packets written are exactly the packets
\* put on the packet queue before the sentinel; after the trailer no packet
\* is written.
C32_HeaderPacketsTrailer ==
    /\ []((hist.written # << >> \/ hist.trailers > 0) => hist.header)
    /\ [](hist.trailers <= 1)
    /\ [](hist.trailers > 0 => hist.written = BeforeSentinel(hist.enqueued))
    /\ [][ (hist.trailers > 0 \/ hist'.trailers > hist.trailers)
             => (hist'.written = hist.written) ]_vars

\* the trailer has been written after two packets
C32_Witness ==
    /\ hist.header
    /\ Len(hist.written) >= 2
    /\ hist.trailers = 1
    /\ packet_pc = "done"

\* av_interleaved_write_frame has failed in stage 3
WriteHasFailed == hist.thrown3 = "av_interleaved_write_frame"

\* C33: when a write to the container has failed in stage 3, the exception
\* is handled in the catch block of packet_thread, which calls
\* packet_buffer.abort() before the thread is over; from the failure on no
\* packet is written, no trailer is ever written and stage 3 never closes
\* the I/O of the container; and every call of send made after the failure
\* returns a future that holds true, as before it.
C33_WriteFailureStaysInStage3 ==
    /\ [](WriteHasFailed =>
            /\ hist.exc3
            /\ packet_pc \in {"catch", "done", "terminated"}
            /\ packet_pc = "catch" <=> ~hist.aborted
            /\ hist.trailers = 0
            /\ ~hist.ioClosed
            /\ hist.eofPopped = 0)
    /\ [][ WriteHasFailed =>
             /\ hist'.written = hist.written
             /\ (hist'.sendCalls > hist.sendCalls) => hist'.lastRet ]_vars

\* a write has failed after a packet was written, stage 3 is over, and a
\* packet that was enqueued has not been written
C33_Witness ==
    /\ WriteHasFailed
    /\ packet_pc = "done"
    /\ hist.aborted
    /\ hist.written # << >>
    /\ Len(BeforeSentinel(hist.enqueued)) > Len(hist.written) + 1


====
